---- MODULE Spec2Model ----
(***************************************************************************)
(* The priority-graph transaction scheduler of the banking stage           *)
(* (core/src/banking_stage/transaction_scheduler/prio_graph_scheduler.rs)  *)
(* as a state machine: one scheduler that alternates schedule passes and   *)
(* receive_completed calls, N workers that take ConsumeWork from their     *)
(* channel and answer on the shared FinishedConsumeWork channel.           *)
(*                                                                         *)
(* A transaction is identified by its TransactionId; its payload (account  *)
(* keys, writable flags), priority and cost are txs[id], so the            *)
(* `transactions` and `max_ages` vectors of a ConsumeWork are the images   *)
(* of its `ids` vector and are not stored a second time.                   *)
(***************************************************************************)
EXTENDS Integers, Sequences, FiniteSets, TLC

\* ------------------------------------------------------------------ bounds
\* A new pass starts only while fewer than MaxBatchId batches were tracked.
MaxBatchId == 3

\* const MAX_FILTER_CHUNK_SIZE: usize = 128;
MAX_FILTER_CHUNK_SIZE == 128

\* TransactionIds (dense handles into the container) and account keys.
Ids == {0, 1, 2, 3}
Accounts == {"a", "b", "c", "d"}

Tx(priority, writes, reads, cost) ==
    [priority |-> priority, writes |-> writes, reads |-> reads, cost |-> cost]

\* The payload under an id the container never held.
NoTx == Tx(0, {}, {}, 0)

\* A workload lists the transactions inserted into the container, by id.
Workload(s) == [i \in Ids |-> IF i + 1 <= Len(s) THEN s[i + 1] ELSE NoTx]

Config(num_threads, max_scheduled_cus, max_scanned, look_ahead, target) ==
    [num_threads |-> num_threads, max_scheduled_cus |-> max_scheduled_cus,
     max_scanned_transactions_per_scheduling_pass |-> max_scanned,
     look_ahead_window_size |-> look_ahead,
     target_transactions_per_batch |-> target]

\* The access patterns of the mixed workloads: the accounts written and read,
\* and the cost.
WriteA == [writes |-> {"a"}, reads |-> {}, cost |-> 1]
WriteB == [writes |-> {"b"}, reads |-> {}, cost |-> 2]
WriteAB == [writes |-> {"a", "b"}, reads |-> {}, cost |-> 1]
ReadA == [writes |-> {}, reads |-> {"a"}, cost |-> 1]

\* Three transactions over two accounts: every combination of the given
\* access patterns, with the given priorities by id.
MixedWorkloads(pr, patterns) ==
    { Workload([k \in 1..3 |-> Tx(pr[k], ps[k].writes, ps[k].reads, ps[k].cost)]) :
        ps \in [1..3 -> patterns] }

\* Four pairwise disjoint transactions with priorities 3, 2, 1, 0.
Disjoint ==
    Workload(<<Tx(3, {"a"}, {}, 1), Tx(2, {"b"}, {}, 1),
               Tx(1, {"c"}, {}, 1), Tx(0, {"d"}, {}, 1)>>)

\* Two transactions writing the same key, priorities 1 and 2.
WriteWrite == Workload(<<Tx(1, {"a"}, {}, 1), Tx(2, {"a"}, {}, 1)>>)

\* Ids 0 and 1 are disjoint, id 2 conflicts with both, id 3 conflicts with
\* ids 1 and 2 (priorities 4, 3, 2, 1).
Guard ==
    Workload(<<Tx(4, {"a"}, {}, 1), Tx(3, {"b", "c"}, {}, 1),
               Tx(2, {"a", "b"}, {}, 1), Tx(1, {"b", "c"}, {}, 1)>>)

\* Three writers of one account (priorities 3, 2, 1): a chain in the graph.
Chain ==
    Workload(<<Tx(3, {"a"}, {}, 1), Tx(2, {"a"}, {}, 1), Tx(1, {"a"}, {}, 1)>>)

\* The runs: a configuration and a workload.
Runs ==
    [config : {Config(2, 2, 3, 2, 1)}, txs : MixedWorkloads(<<1, 2, 2>>, {WriteB, WriteAB, ReadA})]
    \cup [config : {Config(2, 8, 2, 1, 2)}, txs : MixedWorkloads(<<1, 2, 3>>, {WriteA, WriteAB, ReadA})]
    \cup [config : {Config(1, 8, 4, 4, 2), Config(2, 8, 4, 4, 2),
                    Config(1, 8, 2, 4, 2), Config(1, 8, 4, 3, 2)},
          txs : {Disjoint}]
    \cup [config : {Config(1, 8, 4, 4, 2)}, txs : {WriteWrite}]
    \cup [config : {Config(1, 8, 1, 4, 2)}, txs : {Chain}]
    \cup [config : {Config(2, 8, 4, 2, 2)}, txs : {Guard}]

VARIABLES
    config,                 \* PrioGraphScheduler.config and the number of workers
    txs,                    \* id -> [priority, writes, reads, cost]
    container,              \* the StateContainer: [queue, state]
    prio_graph,             \* PrioGraphScheduler.prio_graph
    account_locks,          \* PrioGraphScheduler.account_locks
    in_flight_tracker,      \* PrioGraphScheduler.in_flight_tracker
    consume_work,           \* per thread: ConsumeWork messages sent, not yet taken
    finished_consume_work,  \* FinishedConsumeWork messages sent, not yet received
    connected,              \* which channels still have their other end
    pc,                     \* where the scheduler thread is
    local,                  \* the local variables of the running schedule call
    result,                 \* what the last call returned
    hist                    \* history: the ids retried so far,
                            \* what the last pass deferred, whether
                            \* a finished batch was processed since, and
                            \* since the pass after the last such processing:
                            \* what the passes deferred, what they deferred
                            \* for locks, whether they filtered anything out

vars == <<config, txs, container, prio_graph, account_locks, in_flight_tracker,
          consume_work, finished_consume_work, connected, pc, local, result,
          hist>>

\* ------------------------------------------------------------- small helpers
Min(a, b) == IF a <= b THEN a ELSE b

\* usize::saturating_sub
saturating_sub(a, b) == IF a >= b THEN a - b ELSE 0

RECURSIVE SeqSum(_)
SeqSum(s) == IF s = <<>> THEN 0 ELSE Head(s) + SeqSum(Tail(s))

SeqToSet(s) == {s[i] : i \in 1..Len(s)}

\* The ascending sequence of the elements of a finite set of numbers.
RECURSIVE SortedSeq(_)
SortedSeq(S) ==
    IF S = {} THEN <<>>
    ELSE LET m == CHOOSE x \in S : \A y \in S : x <= y
         IN <<m>> \o SortedSeq(S \ {m})

\* ---------------------------------------------------- TransactionPriorityId
\* Total order of (priority, id): priority descending, then id ascending.
Before(i, j) ==
    \/ txs[i].priority > txs[j].priority
    \/ txs[i].priority = txs[j].priority /\ i < j

\* The first id of a non-empty set in that order.
Top(S) == CHOOSE i \in S : \A j \in S \ {i} : Before(i, j)

\* account_keys() of a transaction.
account_keys(id) == txs[id].writes \cup txs[id].reads

\* Write conflicts with Write and Read; Read conflicts only with Write.
Conflict(i, j) ==
    \/ txs[i].writes \cap account_keys(j) # {}
    \/ txs[j].writes \cap account_keys(i) # {}

\* ---------------------------------------------------------------- ThreadSet
ThreadSet_any(num_threads) == 0..(num_threads - 1)

Threads == ThreadSet_any(config.num_threads)

\* -------------------------------------------------- ThreadAwareAccountLocks
\* Per account and thread, the number of write locks and of read locks held.
WriteHolders(locks, a) == {t \in DOMAIN locks.write[a] : locks.write[a][t] > 0}
ReadHolders(locks, a) == {t \in DOMAIN locks.read[a] : locks.read[a][t] > 0}

\* The threads on which every write and read of the transaction is feasible.
accounts_schedulable_threads(locks, writes, reads, num_threads) ==
    {t \in ThreadSet_any(num_threads) :
        /\ \A a \in writes :
              /\ WriteHolders(locks, a) \subseteq {t}
              /\ ReadHolders(locks, a) \subseteq {t}
        /\ \A a \in reads :
              /\ WriteHolders(locks, a) \subseteq {t}
              /\ ReadHolders(locks, a) = {} \/ t \in ReadHolders(locks, a)}

lock_accounts(locks, writes, reads, t) ==
    [write |-> [a \in Accounts |->
                  IF a \in writes
                  THEN [locks.write[a] EXCEPT ![t] = @ + 1] ELSE locks.write[a]],
     read |-> [a \in Accounts |->
                  IF a \in reads
                  THEN [locks.read[a] EXCEPT ![t] = @ + 1] ELSE locks.read[a]]]

\* thread_selector is the caller's closure, as the function from the thread
\* set it is handed to the thread it returns.
try_lock_accounts(locks, writes, reads, allowed_threads, num_threads, thread_selector) ==
    LET schedulable == accounts_schedulable_threads(locks, writes, reads, num_threads)
    IN  IF schedulable = {}
        THEN [ok |-> FALSE, err |-> "MultipleConflicts", thread_id |-> 0, locks |-> locks]
        ELSE IF schedulable \cap allowed_threads = {}
        THEN [ok |-> FALSE, err |-> "ThreadNotAllowed", thread_id |-> 0, locks |-> locks]
        ELSE LET t == thread_selector[schedulable \cap allowed_threads]
             IN  [ok |-> TRUE, err |-> "", thread_id |-> t,
                  locks |-> lock_accounts(locks, writes, reads, t)]

unlock_accounts(locks, writes, reads, t) ==
    [write |-> [a \in Accounts |->
                  IF a \in writes
                  THEN [locks.write[a] EXCEPT ![t] = saturating_sub(@, 1)]
                  ELSE locks.write[a]],
     read |-> [a \in Accounts |->
                  IF a \in reads
                  THEN [locks.read[a] EXCEPT ![t] = saturating_sub(@, 1)]
                  ELSE locks.read[a]]]

\* ---------------------------------------------------------- InFlightTracker
track_batch(tracker, num_transactions, total_cus, thread_id) ==
    [tracker EXCEPT
        !.num_in_flight_per_thread[thread_id] = @ + num_transactions,
        !.cus_in_flight_per_thread[thread_id] = @ + total_cus,
        !.batches = [b \in DOMAIN @ \cup {tracker.next_batch_id} |->
                        IF b = tracker.next_batch_id
                        THEN [thread_id |-> thread_id,
                              num_transactions |-> num_transactions,
                              total_cus |-> total_cus]
                        ELSE @[b]],
        !.next_batch_id = @ + 1]

tracker_complete_batch(tracker, batch_id) ==
    LET b == tracker.batches[batch_id]
    IN  [tracker EXCEPT
            !.num_in_flight_per_thread[b.thread_id] = @ - b.num_transactions,
            !.cus_in_flight_per_thread[b.thread_id] = @ - b.total_cus,
            !.batches = [x \in DOMAIN @ \ {batch_id} |-> @[x]]]

\* ------------------------------------------------------- ReadWriteAccountSet
check_locks(set, id) ==
    /\ \A a \in txs[id].writes : a \notin set.write /\ a \notin set.read
    /\ \A a \in txs[id].reads : a \notin set.write

take_locks(set, id) ==
    [write |-> set.write \cup txs[id].writes,
     read |-> set.read \cup txs[id].reads]

\* ---------------------------------------------------------------- PrioGraph
\* nodes: inserted and not yet unblocked (a popped node stays until unblock);
\* main: the main queue; blocked_by[id]: the nodes id still waits for.
EmptyGraph == [nodes |-> {}, main |-> {}, blocked_by |-> [i \in Ids |-> {}]]

insert_transaction(graph, id) ==
    LET blockers == {j \in graph.nodes \ {id} : Conflict(j, id)}
    IN  [nodes |-> graph.nodes \cup {id},
         main |-> IF blockers = {} THEN graph.main \cup {id} ELSE graph.main,
         blocked_by |-> [graph.blocked_by EXCEPT ![id] = blockers]]

is_empty(graph) == graph.main = {}

\* pop(): the highest-priority id of the main queue; its node and edges stay.
graph_pop(graph) ==
    IF graph.main = {}
    THEN [some |-> FALSE, id |-> 0, graph |-> graph]
    ELSE LET id == Top(graph.main)
         IN  [some |-> TRUE, id |-> id,
              graph |-> [graph EXCEPT !.main = @ \ {id}]]

unblock(graph, id) ==
    LET rest == [k \in Ids |-> graph.blocked_by[k] \ {id}]
    IN  [nodes |-> graph.nodes \ {id},
         main |-> graph.main \cup
                  {k \in graph.nodes \ {id} :
                      graph.blocked_by[k] # {} /\ rest[k] = {}},
         blocked_by |-> rest]

pop_and_unblock(graph) ==
    LET p == graph_pop(graph)
    IN  IF p.some
        THEN [some |-> TRUE, id |-> p.id, graph |-> unblock(p.graph, p.id)]
        ELSE p

clear(graph) == EmptyGraph

\* ------------------------------------------------------------ StateContainer
\* queue[id]: how many times id is in the priority queue;
\* state[id]: "Unprocessed" (holds its transaction_ttl), "Pending" (the ttl
\* was taken out for scheduling) or "Absent" (no state under this id).
Queued(c) == {i \in Ids : c.queue[i] > 0}

container_pop(c) ==
    IF Queued(c) = {}
    THEN [some |-> FALSE, id |-> 0, container |-> c]
    ELSE LET id == Top(Queued(c))
         IN  [some |-> TRUE, id |-> id,
              container |-> [c EXCEPT !.queue[id] = @ - 1]]

get_transaction_ttl(c, id) == c.state[id] = "Unprocessed"

get_mut_transaction_state(c, id) == c.state[id] # "Absent"

remove_by_id(c, id) == [c EXCEPT !.state[id] = "Absent"]

retry_transaction(c, id) ==
    [c EXCEPT !.state[id] = "Unprocessed", !.queue[id] = @ + 1]

RECURSIVE push_ids_into_queue(_, _)
push_ids_into_queue(c, ids) ==
    IF ids = <<>> THEN c
    ELSE push_ids_into_queue([c EXCEPT !.queue[Head(ids)] = @ + 1], Tail(ids))

\* TransactionState::transition_to_pending
transition_to_pending(c, id) == [c EXCEPT !.state[id] = "Pending"]

\* ------------------------------------------------------------------ Batches
Batches_new(num_threads) ==
    [ids |-> [t \in ThreadSet_any(num_threads) |-> <<>>],
     total_cus |-> [t \in ThreadSet_any(num_threads) |-> 0]]

\* The pushes of lines 248-252 with the id put in front of the batch.
push_transaction_front(batches, thread_id, id, cost) ==
    [ids |-> [batches.ids EXCEPT ![thread_id] = <<id>> \o @],
     total_cus |-> [batches.total_cus EXCEPT ![thread_id] = @ + cost]]

\* batches.ids[thread_id].push(id) and the addition to total_cus (248-252).
push_transaction(batches, thread_id, id, cost) ==
    [ids |-> [batches.ids EXCEPT ![thread_id] = Append(@, id)],
     total_cus |-> [batches.total_cus EXCEPT ![thread_id] = @ + cost]]

\* take_batch with the mem::take calls left out: the batch stays in place.
take_batch_keep(batches, thread_id) ==
    [ids |-> batches.ids[thread_id],
     total_cus |-> batches.total_cus[thread_id],
     batches |-> batches]

take_batch(batches, thread_id) ==
    [ids |-> batches.ids[thread_id],
     total_cus |-> batches.total_cus[thread_id],
     batches |-> [batches EXCEPT !.ids[thread_id] = <<>>,
                                 !.total_cus[thread_id] = 0]]

\* What stands for the panic of select_thread in place of a thread id.
NoThread == -1

\* select_thread over every thread rather than over thread_set.
select_thread_any(thread_set, batch_cus_per_thread, in_flight_cus_per_thread, batches_per_thread, in_flight_per_thread) ==
    LET all == DOMAIN in_flight_per_thread
        cus(t) == batch_cus_per_thread[t] + in_flight_cus_per_thread[t]
        num(t) == Len(batches_per_thread[t]) + in_flight_per_thread[t]
        NotAfter(t, u) == cus(t) < cus(u) \/ (cus(t) = cus(u) /\ num(t) <= num(u))
        minima == {t \in all : \A u \in all : NotAfter(t, u)}
    IN  CHOOSE t \in minima : \A u \in minima : t <= u

\* ------------------------------------------------------------ select_thread
\* select_thread returning the last of several equal minima.
select_thread_last(thread_set, batch_cus_per_thread, in_flight_cus_per_thread, batches_per_thread, in_flight_per_thread) ==
    LET cus(t) == batch_cus_per_thread[t] + in_flight_cus_per_thread[t]
        num(t) == Len(batches_per_thread[t]) + in_flight_per_thread[t]
        NotAfter(t, u) == cus(t) < cus(u) \/ (cus(t) = cus(u) /\ num(t) <= num(u))
        minima == {t \in thread_set : \A u \in thread_set : NotAfter(t, u)}
    IN  CHOOSE t \in minima : \A u \in minima : t >= u

\* select_thread returning the position of the chosen thread within
\* thread_set in place of the thread itself.
select_thread_position(thread_set, batch_cus_per_thread, in_flight_cus_per_thread, batches_per_thread, in_flight_per_thread) ==
    LET cus(t) == batch_cus_per_thread[t] + in_flight_cus_per_thread[t]
        num(t) == Len(batches_per_thread[t]) + in_flight_per_thread[t]
        NotAfter(t, u) == cus(t) < cus(u) \/ (cus(t) = cus(u) /\ num(t) <= num(u))
        minima == {t \in thread_set : \A u \in thread_set : NotAfter(t, u)}
        chosen == CHOOSE t \in minima : \A u \in minima : t <= u
    IN  Cardinality({u \in thread_set : u < chosen})

\* select_thread by compute units alone, without the tie-break.
select_thread_cus_only(thread_set, batch_cus_per_thread, in_flight_cus_per_thread, batches_per_thread, in_flight_per_thread) ==
    LET cus(t) == batch_cus_per_thread[t] + in_flight_cus_per_thread[t]
        minima == {t \in thread_set : \A u \in thread_set : cus(t) <= cus(u)}
    IN  CHOOSE t \in minima : \A u \in minima : t <= u

select_thread(thread_set, batch_cus_per_thread, in_flight_cus_per_thread, batches_per_thread, in_flight_per_thread) ==
    LET cus(t) == batch_cus_per_thread[t] + in_flight_cus_per_thread[t]
        num(t) == Len(batches_per_thread[t]) + in_flight_per_thread[t]
        NotAfter(t, u) == cus(t) < cus(u) \/ (cus(t) = cus(u) /\ num(t) <= num(u))
        minima == {t \in thread_set : \A u \in thread_set : NotAfter(t, u)}
    IN  \* min_by returns the first of several equal minima; unwrap() panics
        \* on the None of an empty set, which NoThread stands for
        IF thread_set = {} THEN NoThread
        ELSE CHOOSE t \in minima : \A u \in minima : t <= u

\* try_schedule_transaction without the check against blocking_locks.
try_schedule_transaction_unshielded(id, blocking_locks, locks, num_threads, thread_selector) ==
    LET write_account_locks == {a \in account_keys(id) : a \in txs[id].writes}
        read_account_locks == {a \in account_keys(id) : a \notin txs[id].writes}
        r == try_lock_accounts(locks, write_account_locks, read_account_locks,
                               ThreadSet_any(num_threads), num_threads,
                               thread_selector)
    IN  IF r.ok
        THEN [ok |-> TRUE, err |-> "", thread_id |-> r.thread_id,
              blocking_locks |-> blocking_locks, locks |-> r.locks]
        ELSE [ok |-> FALSE,
              err |-> IF r.err = "MultipleConflicts"
                      THEN "UnschedulableConflicts" ELSE "UnschedulableThread",
              thread_id |-> 0,
              blocking_locks |-> take_locks(blocking_locks, id),
              locks |-> locks]

\* ------------------------------------------------- try_schedule_transaction
\* try_schedule_transaction that allows only the thread id modulo the number
\* of threads.
try_schedule_transaction_sharded(id, blocking_locks, locks, num_threads, thread_selector) ==
    IF ~check_locks(blocking_locks, id)
    THEN [ok |-> FALSE, err |-> "UnschedulableConflicts", thread_id |-> 0,
          blocking_locks |-> take_locks(blocking_locks, id), locks |-> locks]
    ELSE LET write_account_locks == {a \in account_keys(id) : a \in txs[id].writes}
             read_account_locks == {a \in account_keys(id) : a \notin txs[id].writes}
             r == try_lock_accounts(locks, write_account_locks, read_account_locks,
                                    {id % num_threads}, num_threads,
                                    thread_selector)
         IN  IF r.ok
             THEN [ok |-> TRUE, err |-> "", thread_id |-> r.thread_id,
                   blocking_locks |-> blocking_locks, locks |-> r.locks]
             ELSE [ok |-> FALSE,
                   err |-> IF r.err = "MultipleConflicts"
                           THEN "UnschedulableConflicts" ELSE "UnschedulableThread",
                   thread_id |-> 0,
                   blocking_locks |-> take_locks(blocking_locks, id),
                   locks |-> locks]

\* try_schedule_transaction that calls the selector on the feasible threads
\* itself, without the test for an empty set.
try_schedule_transaction_untested(id, blocking_locks, locks, num_threads, thread_selector) ==
    IF ~check_locks(blocking_locks, id)
    THEN [ok |-> FALSE, err |-> "UnschedulableConflicts", thread_id |-> 0,
          blocking_locks |-> take_locks(blocking_locks, id), locks |-> locks]
    ELSE LET write_account_locks == {a \in account_keys(id) : a \in txs[id].writes}
             read_account_locks == {a \in account_keys(id) : a \notin txs[id].writes}
             t == thread_selector[
                      accounts_schedulable_threads(locks, write_account_locks,
                                                   read_account_locks, num_threads)
                          \cap ThreadSet_any(num_threads)]
         IN  [ok |-> TRUE, err |-> "", thread_id |-> t,
              blocking_locks |-> blocking_locks,
              locks |-> IF t = NoThread THEN locks
                        ELSE lock_accounts(locks, write_account_locks,
                                           read_account_locks, t)]

\* try_schedule_transaction that hands the selector every thread rather than
\* the threads the lock table finds feasible.
try_schedule_transaction_balanced(id, blocking_locks, locks, num_threads, thread_selector) ==
    IF ~check_locks(blocking_locks, id)
    THEN [ok |-> FALSE, err |-> "UnschedulableConflicts", thread_id |-> 0,
          blocking_locks |-> take_locks(blocking_locks, id), locks |-> locks]
    ELSE LET write_account_locks == {a \in account_keys(id) : a \in txs[id].writes}
             read_account_locks == {a \in account_keys(id) : a \notin txs[id].writes}
             r == try_lock_accounts(locks, write_account_locks, read_account_locks,
                                    ThreadSet_any(num_threads), num_threads,
                                    thread_selector)
             t == thread_selector[ThreadSet_any(num_threads)]
         IN  IF r.ok
             THEN [ok |-> TRUE, err |-> "", thread_id |-> t,
                   blocking_locks |-> blocking_locks,
                   locks |-> lock_accounts(locks, write_account_locks,
                                           read_account_locks, t)]
             ELSE [ok |-> FALSE, err |-> "UnschedulableConflicts", thread_id |-> 0,
                   blocking_locks |-> take_locks(blocking_locks, id), locks |-> locks]

\* try_schedule_transaction that, for a transaction the blocking set stops,
\* unlocks the accounts of the transaction on every thread.
try_schedule_transaction_rollback(id, blocking_locks, locks, num_threads, thread_selector) ==
    IF ~check_locks(blocking_locks, id)
    THEN [ok |-> FALSE, err |-> "UnschedulableConflicts", thread_id |-> 0,
          blocking_locks |-> take_locks(blocking_locks, id),
          locks |-> [write |-> [a \in Accounts |-> [t \in ThreadSet_any(num_threads) |->
                                  IF a \in txs[id].writes
                                  THEN saturating_sub(locks.write[a][t], 1)
                                  ELSE locks.write[a][t]]],
                     read |-> [a \in Accounts |-> [t \in ThreadSet_any(num_threads) |->
                                 IF a \in txs[id].reads
                                 THEN saturating_sub(locks.read[a][t], 1)
                                 ELSE locks.read[a][t]]]]]
    ELSE LET write_account_locks == {a \in account_keys(id) : a \in txs[id].writes}
             read_account_locks == {a \in account_keys(id) : a \notin txs[id].writes}
             r == try_lock_accounts(locks, write_account_locks, read_account_locks,
                                    ThreadSet_any(num_threads), num_threads,
                                    thread_selector)
         IN  IF r.ok
             THEN [ok |-> TRUE, err |-> "", thread_id |-> r.thread_id,
                   blocking_locks |-> blocking_locks, locks |-> r.locks]
             ELSE [ok |-> FALSE, err |-> "UnschedulableConflicts", thread_id |-> 0,
                   blocking_locks |-> take_locks(blocking_locks, id), locks |-> locks]

\* try_schedule_transaction that, when try_lock_accounts fails, has taken
\* the locks of the transaction on thread 0.
try_schedule_transaction_locking(id, blocking_locks, locks, num_threads, thread_selector) ==
    IF ~check_locks(blocking_locks, id)
    THEN [ok |-> FALSE, err |-> "UnschedulableConflicts", thread_id |-> 0,
          blocking_locks |-> take_locks(blocking_locks, id), locks |-> locks]
    ELSE LET write_account_locks == {a \in account_keys(id) : a \in txs[id].writes}
             read_account_locks == {a \in account_keys(id) : a \notin txs[id].writes}
             r == try_lock_accounts(locks, write_account_locks, read_account_locks,
                                    ThreadSet_any(num_threads), num_threads,
                                    thread_selector)
         IN  IF r.ok
             THEN [ok |-> TRUE, err |-> "", thread_id |-> r.thread_id,
                   blocking_locks |-> blocking_locks, locks |-> r.locks]
             ELSE [ok |-> FALSE, err |-> "UnschedulableConflicts", thread_id |-> 0,
                   blocking_locks |-> take_locks(blocking_locks, id),
                   locks |-> lock_accounts(locks, write_account_locks,
                                           read_account_locks, 0)]

\* try_schedule_transaction that, when try_lock_accounts fails, drops every
\* lock held on the accounts of the transaction.
try_schedule_transaction_unlocking(id, blocking_locks, locks, num_threads, thread_selector) ==
    IF ~check_locks(blocking_locks, id)
    THEN [ok |-> FALSE, err |-> "UnschedulableConflicts", thread_id |-> 0,
          blocking_locks |-> take_locks(blocking_locks, id), locks |-> locks]
    ELSE LET write_account_locks == {a \in account_keys(id) : a \in txs[id].writes}
             read_account_locks == {a \in account_keys(id) : a \notin txs[id].writes}
             r == try_lock_accounts(locks, write_account_locks, read_account_locks,
                                    ThreadSet_any(num_threads), num_threads,
                                    thread_selector)
             none == [t \in ThreadSet_any(num_threads) |-> 0]
         IN  IF r.ok
             THEN [ok |-> TRUE, err |-> "", thread_id |-> r.thread_id,
                   blocking_locks |-> blocking_locks, locks |-> r.locks]
             ELSE [ok |-> FALSE, err |-> "UnschedulableConflicts", thread_id |-> 0,
                   blocking_locks |-> take_locks(blocking_locks, id),
                   locks |-> [write |-> [a \in Accounts |->
                                           IF a \in account_keys(id) THEN none
                                           ELSE locks.write[a]],
                              read |-> [a \in Accounts |->
                                          IF a \in account_keys(id) THEN none
                                          ELSE locks.read[a]]]]

\* The outcome of one attempt: ok with the thread, or the error; the blocking
\* set and the lock table as the attempt leaves them.
try_schedule_transaction(id, blocking_locks, locks, num_threads, thread_selector) ==
    IF ~check_locks(blocking_locks, id)
    THEN [ok |-> FALSE, err |-> "UnschedulableConflicts", thread_id |-> 0,
          blocking_locks |-> take_locks(blocking_locks, id), locks |-> locks]
    ELSE LET write_account_locks == {a \in account_keys(id) : a \in txs[id].writes}
             read_account_locks == {a \in account_keys(id) : a \notin txs[id].writes}
             r == try_lock_accounts(locks, write_account_locks, read_account_locks,
                                    ThreadSet_any(num_threads), num_threads,
                                    thread_selector)
         IN  IF r.ok
             THEN [ok |-> TRUE, err |-> "", thread_id |-> r.thread_id,
                   blocking_locks |-> blocking_locks, locks |-> r.locks]
             ELSE [ok |-> FALSE,
                   err |-> IF r.err = "MultipleConflicts"
                           THEN "UnschedulableConflicts" ELSE "UnschedulableThread",
                   thread_id |-> 0,
                   blocking_locks |-> take_locks(blocking_locks, id),
                   locks |-> locks]

\* ------------------------------------------------------------- chunked_pops
\* for _ in 0..chunk_size { if let Some(id) = container.pop() ... else break }
RECURSIVE pop_chunk(_, _)
pop_chunk(c, chunk_size) ==
    \* p and r are bound as the one element of a set, which evaluates each once
    IF chunk_size = 0 THEN [ids |-> <<>>, container |-> c]
    ELSE CHOOSE popped \in
             {IF ~p.some THEN [ids |-> <<>>, container |-> c]
              ELSE CHOOSE rest \in
                       {[ids |-> <<p.id>> \o r.ids, container |-> r.container] :
                           r \in {pop_chunk(p.container, chunk_size - 1)}} : TRUE :
                 p \in {container_pop(c)}} : TRUE

\* filter_chunk that counts a transaction marked false but leaves it in the
\* container.
RECURSIVE filter_chunk_no_remove(_, _, _, _, _)
filter_chunk_no_remove(ids, c, graph, num_filtered_out, pre_graph_filter) ==
    IF ids = <<>>
    THEN [container |-> c, graph |-> graph, num_filtered_out |-> num_filtered_out]
    ELSE LET id == Head(ids)
         IN  IF id \notin pre_graph_filter
             THEN filter_chunk_no_remove(Tail(ids), c, insert_transaction(graph, id),
                                         num_filtered_out, pre_graph_filter)
             ELSE filter_chunk_no_remove(Tail(ids), c, graph,
                                         num_filtered_out + 1, pre_graph_filter)

\* The loop over the filter results of one chunk: insert into the graph, or
\* count and remove. pre_graph_filter is the set of ids it marks false.
RECURSIVE filter_chunk(_, _, _, _, _)
filter_chunk(ids, c, graph, num_filtered_out, pre_graph_filter) ==
    IF ids = <<>>
    THEN [container |-> c, graph |-> graph, num_filtered_out |-> num_filtered_out]
    ELSE LET id == Head(ids)
         IN  IF id \notin pre_graph_filter
             THEN filter_chunk(Tail(ids), c, insert_transaction(graph, id),
                               num_filtered_out, pre_graph_filter)
             ELSE filter_chunk(Tail(ids), remove_by_id(c, id), graph,
                               num_filtered_out + 1, pre_graph_filter)

\* chunked_pops that does not charge the chunk to window_budget.
RECURSIVE chunked_pops_no_charge(_, _, _, _, _)
chunked_pops_no_charge(c, graph, window_budget, num_filtered_out, pre_graph_filter) ==
    IF ~(window_budget > 0)
    THEN [container |-> c, graph |-> graph, window_budget |-> window_budget,
          num_filtered_out |-> num_filtered_out, panic |-> FALSE]
    ELSE LET chunk_size == Min(window_budget, MAX_FILTER_CHUNK_SIZE)
             p == pop_chunk(c, chunk_size)
             budget == window_budget
             f == filter_chunk(p.ids, p.container, graph, num_filtered_out,
                               pre_graph_filter)
         IN  IF \E i \in 1..Len(p.ids) : ~get_transaction_ttl(p.container, p.ids[i])
             THEN [container |-> p.container, graph |-> graph,
                   window_budget |-> budget,
                   num_filtered_out |-> num_filtered_out, panic |-> TRUE]
             ELSE IF Len(p.ids) # chunk_size
             THEN [container |-> f.container, graph |-> f.graph,
                   window_budget |-> budget,
                   num_filtered_out |-> f.num_filtered_out, panic |-> FALSE]
             ELSE chunked_pops_no_charge(f.container, f.graph, budget,
                                         f.num_filtered_out, pre_graph_filter)

RECURSIVE chunked_pops(_, _, _, _, _)
chunked_pops(c, graph, window_budget, num_filtered_out, pre_graph_filter) ==
    IF ~(window_budget > 0)
    THEN [container |-> c, graph |-> graph, window_budget |-> window_budget,
          num_filtered_out |-> num_filtered_out, panic |-> FALSE]
    ELSE LET chunk_size == Min(window_budget, MAX_FILTER_CHUNK_SIZE)
             p == pop_chunk(c, chunk_size)
             budget == saturating_sub(window_budget, chunk_size)
             f == filter_chunk(p.ids, p.container, graph, num_filtered_out,
                               pre_graph_filter)
         IN  IF \E i \in 1..Len(p.ids) : ~get_transaction_ttl(p.container, p.ids[i])
             THEN \* get_transaction_ttl(id.id).unwrap() panics
                  [container |-> p.container, graph |-> graph,
                   window_budget |-> budget,
                   num_filtered_out |-> num_filtered_out, panic |-> TRUE]
             ELSE IF Len(p.ids) # chunk_size
             THEN [container |-> f.container, graph |-> f.graph,
                   window_budget |-> budget,
                   num_filtered_out |-> f.num_filtered_out, panic |-> FALSE]
             ELSE chunked_pops(f.container, f.graph, budget, f.num_filtered_out,
                               pre_graph_filter)

\* send_batch that tracks the batch only after the send succeeded.
send_batch_send_first(batches, tracker, channels, conn, thread_index) ==
    IF batches.ids[thread_index] = <<>>
    THEN [batches |-> batches, tracker |-> tracker, channels |-> channels,
          num_sent |-> 0, err |-> FALSE]
    ELSE LET b == take_batch(batches, thread_index)
             batch_id == tracker.next_batch_id
             tracked == track_batch(tracker, Len(b.ids), b.total_cus, thread_index)
             work == [batch_id |-> batch_id, ids |-> b.ids]
         IN  IF conn.consume[thread_index]
             THEN [batches |-> b.batches, tracker |-> tracked,
                   channels |-> [channels EXCEPT ![thread_index] = Append(@, work)],
                   num_sent |-> Len(b.ids), err |-> FALSE]
             ELSE [batches |-> b.batches, tracker |-> tracker,
                   channels |-> channels, num_sent |-> 0, err |-> TRUE]

\* send_batch that numbers every ConsumeWork with the first batch id.
send_batch_first_id(batches, tracker, channels, conn, thread_index) ==
    IF batches.ids[thread_index] = <<>>
    THEN [batches |-> batches, tracker |-> tracker, channels |-> channels,
          num_sent |-> 0, err |-> FALSE]
    ELSE LET b == take_batch(batches, thread_index)
             batch_id == 0
             tracked == track_batch(tracker, Len(b.ids), b.total_cus, thread_index)
             work == [batch_id |-> batch_id, ids |-> b.ids]
         IN  IF conn.consume[thread_index]
             THEN [batches |-> b.batches, tracker |-> tracked,
                   channels |-> [channels EXCEPT ![thread_index] = Append(@, work)],
                   num_sent |-> Len(b.ids), err |-> FALSE]
             ELSE [batches |-> b.batches, tracker |-> tracked,
                   channels |-> channels, num_sent |-> 0, err |-> TRUE]

\* send_batch that drops the result of the send.
send_batch_unchecked(batches, tracker, channels, conn, thread_index) ==
    IF batches.ids[thread_index] = <<>>
    THEN [batches |-> batches, tracker |-> tracker, channels |-> channels,
          num_sent |-> 0, err |-> FALSE]
    ELSE LET b == take_batch(batches, thread_index)
             tracked == track_batch(tracker, Len(b.ids), b.total_cus, thread_index)
             work == [batch_id |-> tracker.next_batch_id, ids |-> b.ids]
         IN  [batches |-> b.batches, tracker |-> tracked,
              channels |-> IF conn.consume[thread_index]
                           THEN [channels EXCEPT ![thread_index] = Append(@, work)]
                           ELSE channels,
              num_sent |-> Len(b.ids), err |-> FALSE]

\* ---------------------------------------------------- send_batch, send_batches
\* What a send leaves behind: the batches, the tracker, the channels, the
\* number of transactions sent, and whether the send failed.
send_batch(batches, tracker, channels, conn, thread_index) ==
    IF batches.ids[thread_index] = <<>>
    THEN [batches |-> batches, tracker |-> tracker, channels |-> channels,
          num_sent |-> 0, err |-> FALSE]
    ELSE LET b == take_batch(batches, thread_index)
             batch_id == tracker.next_batch_id
             tracked == track_batch(tracker, Len(b.ids), b.total_cus, thread_index)
             work == [batch_id |-> batch_id, ids |-> b.ids]
         IN  IF conn.consume[thread_index]
             THEN [batches |-> b.batches, tracker |-> tracked,
                   channels |-> [channels EXCEPT ![thread_index] = Append(@, work)],
                   num_sent |-> Len(b.ids), err |-> FALSE]
             ELSE [batches |-> b.batches, tracker |-> tracked,
                   channels |-> channels, num_sent |-> 0, err |-> TRUE]

\* (0..len).map(|thread_index| self.send_batch(..)).sum(): stops at the first Err.
RECURSIVE send_batches_from(_, _, _, _, _, _)
send_batches_from(thread_index, num_threads, batches, tracker, channels, conn) ==
    IF thread_index >= num_threads
    THEN [batches |-> batches, tracker |-> tracker, channels |-> channels,
          num_sent |-> 0, err |-> FALSE]
    ELSE LET s == send_batch(batches, tracker, channels, conn, thread_index)
         IN  IF s.err THEN s
             ELSE LET r == send_batches_from(thread_index + 1, num_threads,
                                             s.batches, s.tracker, s.channels, conn)
                  IN  [r EXCEPT !.num_sent = @ + s.num_sent]

\* send_batches that sends nothing: the batches stay as they are.
send_batches_none(num_threads, batches, tracker, channels, conn) ==
    [batches |-> batches, tracker |-> tracker, channels |-> channels,
     num_sent |-> 0, err |-> FALSE]

\* send_batches that sends the batch of thread 0 alone.
send_batches_first_only(num_threads, batches, tracker, channels, conn) ==
    send_batch(batches, tracker, channels, conn, 0)

send_batches(num_threads, batches, tracker, channels, conn) ==
    send_batches_from(0, num_threads, batches, tracker, channels, conn)

\* unlock_transactions that stops after the first transaction of the batch.
unlock_transactions_first(locks, transactions, thread_id) ==
    IF transactions = <<>> THEN locks
    ELSE LET id == Head(transactions)
             write_account_locks == {a \in account_keys(id) : a \in txs[id].writes}
             read_account_locks == {a \in account_keys(id) : a \notin txs[id].writes}
         IN  unlock_accounts(locks, write_account_locks, read_account_locks,
                             thread_id)

\* ------------------------------------------------------------ complete_batch
RECURSIVE unlock_transactions(_, _, _)
unlock_transactions(locks, transactions, thread_id) ==
    IF transactions = <<>> THEN locks
    ELSE LET id == Head(transactions)
             write_account_locks == {a \in account_keys(id) : a \in txs[id].writes}
             read_account_locks == {a \in account_keys(id) : a \notin txs[id].writes}
         IN  unlock_transactions(
                 unlock_accounts(locks, write_account_locks, read_account_locks,
                                 thread_id),
                 Tail(transactions), thread_id)

\* complete_batch that runs the unlock loop twice.
complete_batch_twice(tracker, locks, batch_id, transactions) ==
    LET thread_id == tracker.batches[batch_id].thread_id
    IN  [tracker |-> tracker_complete_batch(tracker, batch_id),
         locks |-> unlock_transactions(
                       unlock_transactions(locks, transactions, thread_id),
                       transactions, thread_id)]

\* complete_batch without the unlock loop.
complete_batch_no_unlock(tracker, locks, batch_id, transactions) ==
    [tracker |-> tracker_complete_batch(tracker, batch_id), locks |-> locks]

complete_batch(tracker, locks, batch_id, transactions) ==
    LET thread_id == tracker.batches[batch_id].thread_id
    IN  [tracker |-> tracker_complete_batch(tracker, batch_id),
         locks |-> unlock_transactions(locks, transactions, thread_id)]

\* The loop of try_receive_completed without the `continue` after a retry:
\* a retried transaction is removed as well.
RECURSIVE retry_and_remove(_, _, _, _)
retry_and_remove(c, ids, index, retryable_iter) ==
    IF index >= Len(ids) THEN c
    ELSE LET id == ids[index + 1]
         IN  IF retryable_iter # <<>> /\ Head(retryable_iter) = index
             THEN retry_and_remove(remove_by_id(retry_transaction(c, id), id), ids,
                                   index + 1, Tail(retryable_iter))
             ELSE retry_and_remove(remove_by_id(c, id), ids, index + 1,
                                   retryable_iter)

\* ----------------------------------------------------- try_receive_completed
\* The loop over izip!(ids, transactions, max_ages).enumerate(), with the
\* peekable iterator over retryable_indexes (indexes count from 0).
RECURSIVE retry_or_remove(_, _, _, _)
retry_or_remove(c, ids, index, retryable_iter) ==
    IF index >= Len(ids) THEN c
    ELSE LET id == ids[index + 1]
         IN  IF retryable_iter # <<>> /\ Head(retryable_iter) = index
             THEN retry_or_remove(retry_transaction(c, id), ids, index + 1,
                                  Tail(retryable_iter))
             ELSE retry_or_remove(remove_by_id(c, id), ids, index + 1,
                                  retryable_iter)

\* try_receive_completed that frees the locks only of a batch with nothing
\* to retry.
try_receive_completed_retry_locked(c, tracker, locks, finished, conn) ==
    IF finished # <<>>
    THEN LET msg == Head(finished)
             done == IF msg.retryable_indexes = <<>>
                     THEN complete_batch(tracker, locks, msg.work.batch_id,
                                         msg.work.ids)
                     ELSE complete_batch_no_unlock(tracker, locks,
                                                   msg.work.batch_id, msg.work.ids)
         IN  [received |-> TRUE, err |-> FALSE,
              num_transactions |-> Len(msg.work.ids),
              num_retryable |-> Len(msg.retryable_indexes),
              container |-> retry_or_remove(c, msg.work.ids, 0, msg.retryable_indexes),
              tracker |-> done.tracker, locks |-> done.locks,
              finished |-> Tail(finished)]
    ELSE [received |-> FALSE, err |-> ~conn.finished,
          num_transactions |-> 0, num_retryable |-> 0,
          container |-> c, tracker |-> tracker, locks |-> locks,
          finished |-> finished]

\* try_receive_completed that takes Disconnected for Empty.
try_receive_completed_no_err(c, tracker, locks, finished, conn) ==
    IF finished # <<>>
    THEN LET msg == Head(finished)
             done == complete_batch(tracker, locks, msg.work.batch_id, msg.work.ids)
         IN  [received |-> TRUE, err |-> FALSE,
              num_transactions |-> Len(msg.work.ids),
              num_retryable |-> Len(msg.retryable_indexes),
              container |-> retry_or_remove(c, msg.work.ids, 0, msg.retryable_indexes),
              tracker |-> done.tracker, locks |-> done.locks,
              finished |-> Tail(finished)]
    ELSE [received |-> FALSE, err |-> FALSE,
          num_transactions |-> 0, num_retryable |-> 0,
          container |-> c, tracker |-> tracker, locks |-> locks,
          finished |-> finished]

\* One try_recv and its handling; received = FALSE for Empty or Disconnected.
try_receive_completed(c, tracker, locks, finished, conn) ==
    IF finished # <<>>
    THEN LET msg == Head(finished)
             done == complete_batch(tracker, locks, msg.work.batch_id, msg.work.ids)
         IN  [received |-> TRUE, err |-> FALSE,
              num_transactions |-> Len(msg.work.ids),
              num_retryable |-> Len(msg.retryable_indexes),
              container |-> retry_or_remove(c, msg.work.ids, 0, msg.retryable_indexes),
              tracker |-> done.tracker, locks |-> done.locks,
              finished |-> Tail(finished)]
    ELSE [received |-> FALSE, err |-> ~conn.finished,
          num_transactions |-> 0, num_retryable |-> 0,
          container |-> c, tracker |-> tracker, locks |-> locks,
          finished |-> finished]

\* -------------------------------------------------------------------- state
\* The pre_graph_filter closures a caller may pass: the set of ids marked false.
PreGraphFilters == {{}, {2}}

\* The locals of schedule when no pass runs.
NoLocal ==
    [schedulable_threads |-> {}, batches |-> Batches_new(0),
     unschedulable_ids |-> <<>>, blocking_locks |-> [write |-> {}, read |-> {}],
     num_filtered_out |-> 0, window_budget |-> 0, unblock_this_batch |-> <<>>,
     num_scanned |-> 0, num_scheduled |-> 0, num_sent |-> 0,
     num_unschedulable |-> 0, pre_graph_filter |-> {},
     \* history: the (id, thread) assignments of this pass, in order, the
     \* ids the last pass deferred that were lockable when this pass started,
     \* the number of ids queued when this pass started, and the ids this
     \* pass deferred because try_lock_accounts failed, and the errors
     \* try_schedule_transaction returned in this pass
     assigned |-> <<>>, ready |-> {}, start_queued |-> 0, lock_deferred |-> {},
     errors |-> {}]

NoResult == [tag |-> "none"]

SchedulingSummary(num_scheduled, num_unschedulable, num_filtered_out) ==
    [tag |-> "summary", num_scheduled |-> num_scheduled,
     num_unschedulable |-> num_unschedulable,
     num_filtered_out |-> num_filtered_out]

\* The state after PrioGraphScheduler::new and the filling of the container,
\* for one of the given runs.
InitOf(runs) ==
    /\ \E run \in runs : config = run.config /\ txs = run.txs
    /\ container =
          [queue |-> [i \in Ids |-> IF txs[i] = NoTx THEN 0 ELSE 1],
           state |-> [i \in Ids |-> IF txs[i] = NoTx THEN "Absent"
                                                      ELSE "Unprocessed"]]
    /\ prio_graph = EmptyGraph
    /\ account_locks =
          [write |-> [a \in Accounts |-> [t \in Threads |-> 0]],
           read |-> [a \in Accounts |-> [t \in Threads |-> 0]]]
    /\ in_flight_tracker =
          [num_in_flight_per_thread |-> [t \in Threads |-> 0],
           cus_in_flight_per_thread |-> [t \in Threads |-> 0],
           batches |-> <<>>, next_batch_id |-> 0]
    /\ consume_work = [t \in Threads |-> <<>>]
    /\ finished_consume_work = <<>>
    /\ connected = [consume |-> [t \in Threads |-> TRUE], finished |-> TRUE]
    /\ pc = "idle"
    /\ local = NoLocal
    /\ result = NoResult
    /\ hist = [deferred |-> {}, released |-> FALSE, stuck |-> {},
               stuck_locks |-> {}, filtered |-> FALSE, retried |-> {}]

Init == InitOf(Runs)

\* ----------------------------------------------------------------- schedule
max_cu_per_thread == config.max_scheduled_cus \div config.num_threads

\* The head of the outer loop with the test of num_scanned inverted.
LoopHead_inverted(num_scanned, graph) ==
    IF /\ num_scanned >= config.max_scanned_transactions_per_scheduling_pass
       /\ ~is_empty(graph)
    THEN "scan" ELSE "finish"

\* The head of the outer loop without the test of num_scanned.
LoopHead_uncapped(num_scanned, graph) ==
    IF ~is_empty(graph) THEN "scan" ELSE "finish"

\* The head of the outer loop without the break on an empty graph.
LoopHead_no_break(num_scanned, graph) ==
    IF num_scanned < config.max_scanned_transactions_per_scheduling_pass
    THEN "scan" ELSE "finish"

\* The head of the outer loop with <= in place of <.
LoopHead_le(num_scanned, graph) ==
    IF /\ num_scanned <= config.max_scanned_transactions_per_scheduling_pass
       /\ ~is_empty(graph)
    THEN "scan" ELSE "finish"

\* The head of the outer loop: scan on, or leave the loop.
LoopHead(num_scanned, graph) ==
    IF /\ num_scanned < config.max_scanned_transactions_per_scheduling_pass
       /\ ~is_empty(graph)
    THEN "scan" ELSE "finish"

\* A return with Err or a panic: the locals are gone, the fields stay.
Leave(tag, msg) ==
    /\ pc' = IF tag = "panic" THEN "panicked" ELSE "idle"
    /\ result' = [tag |-> tag, msg |-> msg]
    /\ local' = NoLocal

\* The initial schedulable set with > in place of >=.
initial_schedulable_threads_gt(cus_in_flight_per_thread, num_threads) ==
    {t \in ThreadSet_any(num_threads) :
        ~(cus_in_flight_per_thread[t] > max_cu_per_thread)}

\* The threads below max_cu_per_thread when the pass starts.
initial_schedulable_threads(cus_in_flight_per_thread, num_threads) ==
    {t \in ThreadSet_any(num_threads) :
        ~(cus_in_flight_per_thread[t] >= max_cu_per_thread)}

\* The scan-cap test with > in place of >=.
scan_cap_reached_gt(num_scanned) ==
    num_scanned > config.max_scanned_transactions_per_scheduling_pass

\* if num_scanned >= self.config.max_scanned_transactions_per_scheduling_pass
scan_cap_reached(num_scanned) ==
    num_scanned >= config.max_scanned_transactions_per_scheduling_pass

\* The target test with > in place of >=.
target_reached_gt(len) == len > config.target_transactions_per_batch

\* if batches.ids[thread_id].len() >= self.config.target_transactions_per_batch
target_reached(len) == len >= config.target_transactions_per_batch

\* The threads on which the accounts of id can be locked now.
Lockable(locks, id) ==
    accounts_schedulable_threads(locks, txs[id].writes, txs[id].reads,
                                 config.num_threads)

\* schedule, from its entry to the first look-ahead window.
schedule(pre_graph_filter) ==
    /\ pc = "idle"
    /\ in_flight_tracker.next_batch_id < MaxBatchId
    /\ \E num_threads \in {config.num_threads} :
       \E schedulable_threads \in
               {initial_schedulable_threads(
                    in_flight_tracker.cus_in_flight_per_thread, num_threads)} :
       \E w \in {chunked_pops(container, prio_graph, config.look_ahead_window_size,
                              0, pre_graph_filter)} :
           IF schedulable_threads = {}
           THEN /\ result' = SchedulingSummary(0, 0, 0)
                /\ UNCHANGED <<container, prio_graph, pc, local>>
           ELSE IF w.panic
           THEN /\ Leave("panic", "get_transaction_ttl")
                /\ container' = w.container
                /\ prio_graph' = w.graph
           ELSE /\ container' = w.container
                /\ prio_graph' = w.graph
                /\ local' = [NoLocal EXCEPT
                      !.schedulable_threads = schedulable_threads,
                      !.batches = Batches_new(num_threads),
                      !.num_filtered_out = w.num_filtered_out,
                      !.window_budget = w.window_budget,
                      !.pre_graph_filter = pre_graph_filter,
                      !.start_queued = Cardinality(Queued(container)),
                      !.ready = IF hist.released
                                THEN {x \in hist.deferred :
                                        /\ container.queue[x] > 0
                                        /\ Lockable(account_locks, x) # {}}
                                ELSE {}]
                /\ pc' = LoopHead(0, w.graph)
                /\ UNCHANGED result
    /\ UNCHANGED <<config, txs, account_locks, in_flight_tracker, consume_work,
                   finished_consume_work, connected, hist>>

\* One iteration of `while let Some(id) = self.prio_graph.pop()` (lines 208-279).
ScanTransaction ==
    /\ pc = "scan"
    /\ \E p \in {graph_pop(prio_graph)} :
       \E info \in {try_schedule_transaction(
                        p.id, local.blocking_locks, account_locks,
                        config.num_threads,
                        [thread_set \in SUBSET Threads |->
                            select_thread(thread_set, local.batches.total_cus,
                                          in_flight_tracker.cus_in_flight_per_thread,
                                          local.batches.ids,
                                          in_flight_tracker.num_in_flight_per_thread)])} :
       LET id == p.id
           num_scanned == local.num_scanned + 1
           thread_id == info.thread_id
           pushed == push_transaction(local.batches, thread_id, id, txs[id].cost)
           full == target_reached(Len(pushed.ids[thread_id]))
           sent == IF full
                   THEN send_batch(pushed, in_flight_tracker, consume_work,
                                   connected, thread_id)
                   ELSE [batches |-> pushed, tracker |-> in_flight_tracker,
                         channels |-> consume_work, num_sent |-> 0, err |-> FALSE]
           at_cap == sent.tracker.cus_in_flight_per_thread[thread_id]
                        + sent.batches.total_cus[thread_id] >= max_cu_per_thread
           schedulable_threads ==
               IF at_cap THEN local.schedulable_threads \ {thread_id}
               ELSE local.schedulable_threads
           stop == \/ at_cap /\ schedulable_threads = {}
                   \/ scan_cap_reached(num_scanned)
       IN  /\ p.some
           /\ prio_graph' = p.graph
           /\ IF ~get_mut_transaction_state(container, id)
              THEN /\ Leave("panic", "transaction state must exist")
                   /\ UNCHANGED <<container, account_locks, in_flight_tracker,
                                  consume_work>>
              ELSE IF container.state[id] # "Unprocessed"
              THEN /\ Leave("panic", "transaction_ttl")
                   /\ UNCHANGED <<container, account_locks, in_flight_tracker,
                                  consume_work>>
              ELSE IF info.ok /\ info.thread_id = NoThread
              THEN /\ Leave("panic", "select_thread")
                   /\ UNCHANGED <<container, account_locks, in_flight_tracker,
                                  consume_work>>
              ELSE IF ~info.ok
              THEN /\ local' = [local EXCEPT
                         !.num_scanned = num_scanned,
                         !.unblock_this_batch = Append(@, id),
                         !.unschedulable_ids = Append(@, id),
                         !.num_unschedulable = @ + 1,
                         !.blocking_locks = info.blocking_locks,
                         !.lock_deferred =
                             IF check_locks(local.blocking_locks, id)
                             THEN @ \cup {id} ELSE @,
                         !.errors = @ \cup {info.err}]
                   /\ account_locks' = info.locks
                   /\ pc' = IF scan_cap_reached(num_scanned) \/ is_empty(p.graph)
                            THEN "flush" ELSE "scan"
                   /\ UNCHANGED <<container, in_flight_tracker, consume_work,
                                  result>>
              ELSE /\ container' = transition_to_pending(container, id)
                   /\ account_locks' = info.locks
                   /\ in_flight_tracker' = sent.tracker
                   /\ consume_work' = sent.channels
                   /\ IF sent.err
                      THEN Leave("err", "DisconnectedSendChannel")
                      ELSE /\ local' = [local EXCEPT
                                 !.num_scanned = num_scanned,
                                 !.unblock_this_batch = Append(@, id),
                                 !.num_scheduled = @ + 1,
                                 !.batches = sent.batches,
                                 !.num_sent = @ + sent.num_sent,
                                 !.schedulable_threads = schedulable_threads,
                                 !.assigned = Append(@, <<id, thread_id>>)]
                           /\ pc' = IF stop \/ is_empty(p.graph)
                                    THEN "flush" ELSE "scan"
                           /\ UNCHANGED result
    /\ UNCHANGED <<config, txs, finished_consume_work, connected, hist>>

\* for id in unblock_this_batch.drain(..) { self.prio_graph.unblock(&id); }
RECURSIVE unblock_all(_, _)
unblock_all(graph, ids) ==
    \* the unblocked graph is bound as the one element of a set, which
    \* evaluates it once
    IF ids = <<>> THEN graph
    ELSE CHOOSE unblocked \in
             {unblock_all(g, Tail(ids)) : g \in {unblock(graph, Head(ids))}} : TRUE

\* The end of one round of the outer loop (lines 281-291): send the batches,
\* refill the window, unblock what was popped.
FlushRefillUnblock ==
    /\ pc = "flush"
    /\ \E sent \in {send_batches(config.num_threads, local.batches,
                                in_flight_tracker, consume_work, connected)} :
       \E w \in {chunked_pops(container, prio_graph,
                             local.window_budget + Len(local.unblock_this_batch),
                             local.num_filtered_out, local.pre_graph_filter)} :
       \E graph \in {unblock_all(w.graph, local.unblock_this_batch)} :
           /\ in_flight_tracker' = sent.tracker
           /\ consume_work' = sent.channels
           /\ IF sent.err
              THEN /\ Leave("err", "DisconnectedSendChannel")
                   /\ UNCHANGED <<container, prio_graph>>
              ELSE IF w.panic
              THEN /\ Leave("panic", "get_transaction_ttl")
                   /\ container' = w.container
                   /\ prio_graph' = w.graph
              ELSE /\ container' = w.container
                   /\ prio_graph' = graph
                   /\ local' = [local EXCEPT
                         !.batches = sent.batches,
                         !.num_sent = @ + sent.num_sent,
                         !.window_budget = w.window_budget,
                         !.num_filtered_out = w.num_filtered_out,
                         !.unblock_this_batch = <<>>]
                   /\ pc' = LoopHead(local.num_scanned, graph)
                   /\ UNCHANGED result
    /\ UNCHANGED <<config, txs, account_locks, finished_consume_work, connected,
                   hist>>

\* The drain with pop in place of pop_and_unblock: what the popped ids block
\* never reaches the main queue.
RECURSIVE drain_graph_no_unblock(_)
drain_graph_no_unblock(graph) ==
    LET p == graph_pop(graph)
    IN  IF p.some THEN <<p.id>> \o drain_graph_no_unblock(p.graph) ELSE <<>>

\* std::iter::from_fn(|| self.prio_graph.pop_and_unblock().map(|(id, _)| id))
RECURSIVE drain_graph(_)
drain_graph(graph) ==
    \* p is bound as the one element of a set, which evaluates it once
    CHOOSE drained \in
        {IF p.some THEN <<p.id>> \o drain_graph(p.graph) ELSE <<>> :
            p \in {pop_and_unblock(graph)}} : TRUE

\* After the outer loop (lines 294-320).
FinishPass ==
    /\ pc = "finish"
    /\ hist' = [deferred |-> SeqToSet(local.unschedulable_ids),
                released |-> FALSE,
                stuck |-> (IF hist.released THEN {} ELSE hist.stuck)
                             \cup SeqToSet(local.unschedulable_ids),
                stuck_locks |-> (IF hist.released THEN {} ELSE hist.stuck_locks)
                                   \cup local.lock_deferred,
                filtered |-> \/ ~hist.released /\ hist.filtered
                             \/ local.num_filtered_out > 0,
                retried |-> hist.retried]
    /\ \E sent \in {send_batches(config.num_threads, local.batches,
                                in_flight_tracker, consume_work, connected)} :
       \E num_sent \in {local.num_sent + sent.num_sent} :
       \E pushed \in {push_ids_into_queue(
                          push_ids_into_queue(container, local.unschedulable_ids),
                          drain_graph(prio_graph))} :
           /\ in_flight_tracker' = sent.tracker
           /\ consume_work' = sent.channels
           /\ IF sent.err
              THEN /\ Leave("err", "DisconnectedSendChannel")
                   /\ UNCHANGED <<container, prio_graph>>
              ELSE /\ container' = pushed
                   /\ prio_graph' = clear(prio_graph)
                   /\ IF local.num_scheduled # num_sent
                      THEN Leave("panic", "number of scheduled and sent transactions must match")
                      ELSE /\ pc' = "idle"
                           /\ local' = NoLocal
                           /\ result' = SchedulingSummary(local.num_scheduled,
                                                          local.num_unschedulable,
                                                          local.num_filtered_out)
    /\ UNCHANGED <<config, txs, account_locks, finished_consume_work, connected>>

\* -------------------------------------------------------- receive_completed
\* receive_completed with one try_receive_completed in place of the loop.
receive_once(c, tracker, locks, finished, conn, total_num_transactions, total_num_retryable) ==
    LET r == try_receive_completed(c, tracker, locks, finished, conn)
    IN  [err |-> r.err, container |-> r.container, tracker |-> r.tracker,
         locks |-> r.locks, finished |-> r.finished,
         total_num_transactions |-> r.num_transactions,
         total_num_retryable |-> r.num_retryable]

\* The loop of receive_completed with the totals overwritten, not added to.
RECURSIVE receive_loop_last(_, _, _, _, _, _, _)
receive_loop_last(c, tracker, locks, finished, conn, total_num_transactions, total_num_retryable) ==
    LET r == try_receive_completed(c, tracker, locks, finished, conn)
    IN  IF r.err
        THEN [err |-> TRUE, container |-> c, tracker |-> tracker, locks |-> locks,
              finished |-> finished,
              total_num_transactions |-> total_num_transactions,
              total_num_retryable |-> total_num_retryable]
        ELSE IF r.num_transactions = 0
        THEN [err |-> FALSE, container |-> r.container, tracker |-> r.tracker,
              locks |-> r.locks, finished |-> r.finished,
              total_num_transactions |-> total_num_transactions,
              total_num_retryable |-> total_num_retryable]
        ELSE receive_loop_last(r.container, r.tracker, r.locks, r.finished, conn,
                               r.num_transactions, r.num_retryable)

RECURSIVE receive_loop(_, _, _, _, _, _, _)
receive_loop(c, tracker, locks, finished, conn, total_num_transactions, total_num_retryable) ==
    \* r is bound as the one element of a set, which evaluates it once
    CHOOSE received \in
        {IF r.err
         THEN [err |-> TRUE, container |-> c, tracker |-> tracker, locks |-> locks,
               finished |-> finished,
               total_num_transactions |-> total_num_transactions,
               total_num_retryable |-> total_num_retryable]
         ELSE IF r.num_transactions = 0
         THEN [err |-> FALSE, container |-> r.container, tracker |-> r.tracker,
               locks |-> r.locks, finished |-> r.finished,
               total_num_transactions |-> total_num_transactions,
               total_num_retryable |-> total_num_retryable]
         ELSE receive_loop(r.container, r.tracker, r.locks, r.finished, conn,
                           total_num_transactions + r.num_transactions,
                           total_num_retryable + r.num_retryable) :
            r \in {try_receive_completed(c, tracker, locks, finished, conn)}} : TRUE

receive_completed ==
    /\ pc = "idle"
    /\ \E r \in {receive_loop(container, in_flight_tracker, account_locks,
                              finished_consume_work, connected, 0, 0)} :
           /\ container' = r.container
           /\ in_flight_tracker' = r.tracker
           /\ account_locks' = r.locks
           /\ finished_consume_work' = r.finished
           /\ hist' = [hist EXCEPT
                 !.released = @ \/ r.total_num_transactions > 0,
                 !.retried = @ \cup {i \in Ids :
                                        /\ container.state[i] = "Pending"
                                        /\ r.container.state[i] = "Unprocessed"}]
           /\ result' = IF r.err
                        THEN [tag |-> "err", msg |-> "DisconnectedRecvChannel"]
                        ELSE [tag |-> "completed",
                              num_transactions |-> r.total_num_transactions,
                              num_retryable |-> r.total_num_retryable]
    /\ UNCHANGED <<config, txs, prio_graph, consume_work, connected, pc, local>>

\* ------------------------------------------------------------------ workers
\* Worker t takes its next ConsumeWork and reports it finished, with any
\* ascending set of retryable indexes.
Worker(t) ==
    /\ consume_work[t] # <<>>
    /\ connected.consume[t]
    /\ connected.finished
    /\ \E retryable \in SUBSET (0..(Len(Head(consume_work[t]).ids) - 1)) :
          finished_consume_work' =
              Append(finished_consume_work,
                     [work |-> Head(consume_work[t]),
                      retryable_indexes |-> SortedSeq(retryable)])
    /\ consume_work' = [consume_work EXCEPT ![t] = Tail(@)]
    /\ UNCHANGED <<config, txs, container, prio_graph, account_locks,
                   in_flight_tracker, connected, pc, local, result, hist>>

Next ==
    \/ \E f \in PreGraphFilters : schedule(f)
    \/ ScanTransaction
    \/ FlushRefillUnblock
    \/ FinishPass
    \/ receive_completed
    \/ \E t \in Threads : Worker(t)

Spec == Init /\ [][Next]_vars

\* schedule is one sequential call: once entered, each of its steps is taken.
PassRuns ==
    [config : {Config(1, 8, 2, 4, 2)}, txs : {Disjoint}]
    \cup [config : {Config(1, 8, 1, 4, 2)}, txs : {Chain}]
    \cup [config : {Config(2, 8, 4, 2, 2)}, txs : {Guard}]

InitPass == InitOf(PassRuns)

SpecPass ==
    /\ InitPass /\ [][Next]_vars
    /\ WF_vars(ScanTransaction)
    /\ WF_vars(FlushRefillUnblock)
    /\ WF_vars(FinishPass)

\* ------------------------------------------------------------------ progress
\* Worker t reports its next ConsumeWork finished with no retryable index.
WorkerDone(t) ==
    /\ Worker(t)
    /\ finished_consume_work'[Len(finished_consume_work')].retryable_indexes = <<>>

\* The runs of the specification of progress: every cap is positive.
ProgressRuns == Runs

InitProgress == InitOf(ProgressRuns)

\* The caller passes filters that let every transaction through.
NextProgress ==
    \/ schedule({})
    \/ ScanTransaction
    \/ FlushRefillUnblock
    \/ FinishPass
    \/ receive_completed
    \/ \E t \in Threads : WorkerDone(t)

\* The caller keeps calling schedule and receive_completed in turn, a call of
\* schedule runs to its end, and every worker returns the work it was sent.
SpecProgress ==
    /\ InitProgress /\ [][NextProgress]_vars
    /\ SF_vars(schedule({}))
    /\ SF_vars(receive_completed)
    /\ WF_vars(ScanTransaction)
    /\ WF_vars(FlushRefillUnblock)
    /\ WF_vars(FinishPass)
    /\ \A t \in {0, 1} : WF_vars(t \in Threads /\ WorkerDone(t))

\* ------------------------------------------------------ channel disconnects
\* The receiver of thread t's consume channel is dropped.
DisconnectConsume(t) ==
    /\ connected.consume[t]
    /\ connected' = [connected EXCEPT !.consume[t] = FALSE]
    /\ UNCHANGED <<config, txs, container, prio_graph, account_locks,
                   in_flight_tracker, consume_work, finished_consume_work, pc,
                   local, result, hist>>

\* Every sender of the finished-work channel is dropped; what was sent before
\* can still be received.
DisconnectFinished ==
    /\ connected.finished
    /\ connected' = [connected EXCEPT !.finished = FALSE]
    /\ UNCHANGED <<config, txs, container, prio_graph, account_locks,
                   in_flight_tracker, consume_work, finished_consume_work, pc,
                   local, result, hist>>

\* The runs of the specification with disconnects.
FailRuns ==
    [config : {Config(1, 8, 4, 4, 2), Config(2, 8, 4, 4, 2)}, txs : {Disjoint}]
    \cup [config : {Config(2, 8, 4, 2, 2)}, txs : {Guard}]

InitFail == InitOf(FailRuns)

NextFail ==
    \/ Next
    \/ \E t \in Threads : DisconnectConsume(t)
    \/ DisconnectFinished

SpecFail == InitFail /\ [][NextFail]_vars

\* --------------------------------------------------- select_thread by itself
\* The arguments select_thread is applied to: three threads, every non-empty
\* thread set, and per thread the compute units and the transaction counts
\* of the batch being assembled and of the work in flight.
SelectThreads == ThreadSet_any(3)
SelectCus == 0..1
SelectBatches == {<<>>, <<0>>}
SelectInFlight == 0..1

InitSelect ==
    /\ config = Config(3, 8, 4, 4, 2)
    /\ txs = Workload(<<>>)
    /\ container = [queue |-> [i \in Ids |-> 0], state |-> [i \in Ids |-> "Absent"]]
    /\ prio_graph = EmptyGraph
    /\ account_locks =
          [write |-> [a \in Accounts |-> [t \in SelectThreads |-> 0]],
           read |-> [a \in Accounts |-> [t \in SelectThreads |-> 0]]]
    /\ \E cus \in [SelectThreads -> SelectCus] :
       \E num \in [SelectThreads -> SelectInFlight] :
          in_flight_tracker =
              [num_in_flight_per_thread |-> num, cus_in_flight_per_thread |-> cus,
               batches |-> <<>>, next_batch_id |-> 0]
    /\ consume_work = [t \in SelectThreads |-> <<>>]
    /\ finished_consume_work = <<>>
    /\ connected = [consume |-> [t \in SelectThreads |-> TRUE], finished |-> TRUE]
    /\ pc = "select"
    /\ \E thread_set \in (SUBSET SelectThreads) \ {{}} :
       \E total_cus \in [SelectThreads -> SelectCus] :
       \E ids \in [SelectThreads -> SelectBatches] :
          local = [thread_set |-> thread_set,
                   batches |-> [ids |-> ids, total_cus |-> total_cus]]
    /\ result = NoResult
    /\ hist = [deferred |-> {}, released |-> FALSE, stuck |-> {},
               stuck_locks |-> {}, filtered |-> FALSE, retried |-> {}]

\* The closure schedule hands to try_schedule_transaction (lines 227-235),
\* applied to the thread set.
SelectThread ==
    /\ pc = "select"
    /\ pc' = "selected"
    /\ result' = [tag |-> "thread",
                  thread_id |->
                      select_thread(local.thread_set, local.batches.total_cus,
                                    in_flight_tracker.cus_in_flight_per_thread,
                                    local.batches.ids,
                                    in_flight_tracker.num_in_flight_per_thread)]
    /\ UNCHANGED <<config, txs, container, prio_graph, account_locks,
                   in_flight_tracker, consume_work, finished_consume_work,
                   connected, local, hist>>

NextSelect == SelectThread

SpecSelect == InitSelect /\ [][NextSelect]_vars

\* ===================================================================== claims
\* The transactions sent to a worker whose FinishedConsumeWork was not yet
\* processed, each with the thread it was sent to.
SentOn(t) ==
    UNION {SeqToSet(consume_work[t][k].ids) : k \in 1..Len(consume_work[t])}
    \cup
    UNION {SeqToSet(finished_consume_work[k].work.ids) :
              k \in {m \in 1..Len(finished_consume_work) :
                       in_flight_tracker
                           .batches[finished_consume_work[m].work.batch_id]
                           .thread_id = t}}

InPass == pc \in {"scan", "flush", "finish"}

AssignedIds == {local.assigned[k][1] : k \in 1..Len(local.assigned)}

\* C1: no account is write-locked by one thread while another thread holds
\* a read or a write lock on it.
C1_MutualExclusion ==
    \A a \in Accounts : \A t \in Threads : \A u \in Threads \ {t} :
        account_locks.write[a][t] > 0 =>
            account_locks.write[a][u] = 0 /\ account_locks.read[a][u] = 0

\* C1 witness: after receive_completed processed a batch, one thread holds a
\* write lock and another thread holds a lock on a different account.
C1_Witness ==
    /\ pc = "idle" /\ result.tag = "completed" /\ result.num_transactions > 0
    /\ \E a \in Accounts : \E b \in Accounts \ {a} :
       \E t \in Threads : \E u \in Threads \ {t} :
          /\ account_locks.write[a][t] > 0
          /\ account_locks.write[b][u] > 0 \/ account_locks.read[b][u] > 0

\* C2: two transactions in flight on different threads never conflict.
C2_NoConflictAcrossThreads ==
    \A t \in Threads : \A u \in Threads \ {t} :
        \A i \in SentOn(t) : \A j \in SentOn(u) : ~Conflict(i, j)

\* C2 witness: transactions are in flight on two threads, and one thread
\* holds two in-flight transactions that conflict with each other.
C2_Witness ==
    /\ 1 \in Threads /\ SentOn(0) # {} /\ SentOn(1) # {}
    /\ \E t \in Threads : \E i \in SentOn(t) : \E j \in SentOn(t) \ {i} :
          Conflict(i, j)

\* The largest cost of one transaction of the workload.
MaxCost == CHOOSE c \in {txs[i].cost : i \in Ids} : \A i \in Ids : txs[i].cost <= c

\* C3: in_flight_cu[T] <= max_cu_per_thread + the cost of one transaction.
C3_CuCap ==
    \A t \in Threads :
        in_flight_tracker.cus_in_flight_per_thread[t] <= max_cu_per_thread + MaxCost

\* C4: in a pass, no transaction is assigned while a conflicting transaction
\* that precedes it in priority order is recorded unschedulable.
C4_PriorityShielding ==
    InPass =>
        \A x \in SeqToSet(local.unschedulable_ids) : \A y \in AssignedIds :
            ~(Before(x, y) /\ Conflict(x, y))

\* C4 witness: a deferred transaction shields a lower-priority conflicting
\* one whose accounts could have been locked, and the pass assigned others.
C4_Witness ==
    /\ InPass /\ local.assigned # <<>>
    /\ \E x \in SeqToSet(local.unschedulable_ids) :
       \E y \in SeqToSet(local.unschedulable_ids) \ {x} :
          /\ txs[x].priority > txs[y].priority
          /\ txs[x].writes \cap txs[y].writes # {}
          /\ Lockable(account_locks, y) # {}

\* Between calls, with every dispatched batch processed.
Quiescent ==
    /\ pc = "idle"
    /\ finished_consume_work = <<>>
    /\ \A t \in Threads : consume_work[t] = <<>>

\* C5: once a pass has returned and all its batches were processed, every id
\* the container held is either queued once with its state in place (still
\* pending, or retried) or removed, never lost and never both.
C5_Conservation ==
    Quiescent =>
        \A i \in Ids : txs[i] # NoTx =>
            \/ container.queue[i] = 1 /\ container.state[i] = "Unprocessed"
            \/ container.queue[i] = 0 /\ container.state[i] = "Absent"

\* C5 witness: all batches processed, the last receive_completed retried a
\* transaction, one id is removed and a deferred one is still pending.
C5_Witness ==
    /\ Quiescent /\ result.tag = "completed" /\ result.num_retryable > 0
    /\ \E i \in Ids : txs[i] # NoTx /\ container.state[i] = "Absent"
    /\ \E j \in hist.deferred : container.queue[j] = 1

\* How many times id i is in each place.
InQueue(i) == container.queue[i]
InGraph(i) ==
    IF i \in prio_graph.nodes \ SeqToSet(local.unblock_this_batch) THEN 1 ELSE 0
InBatch(i) ==
    Cardinality({tk \in (DOMAIN local.batches.ids) \X (1..Cardinality(Ids)) :
                    /\ tk[2] <= Len(local.batches.ids[tk[1]])
                    /\ local.batches.ids[tk[1]][tk[2]] = i})
InFlight(i) ==
    Cardinality({tkj \in Threads \X (1..MaxBatchId + Cardinality(Ids))
                             \X (1..Cardinality(Ids)) :
                    /\ tkj[2] <= Len(consume_work[tkj[1]])
                    /\ tkj[3] <= Len(consume_work[tkj[1]][tkj[2]].ids)
                    /\ consume_work[tkj[1]][tkj[2]].ids[tkj[3]] = i})
    + Cardinality({kj \in (1..Len(finished_consume_work)) \X (1..Cardinality(Ids)) :
                    /\ kj[2] <= Len(finished_consume_work[kj[1]].work.ids)
                    /\ finished_consume_work[kj[1]].work.ids[kj[2]] = i})

\* C6: an id is in at most one of the container queue, the priority graph,
\* a batch being assembled and a dispatched batch, and in it once.
C6_OnePlace ==
    \A i \in Ids : InQueue(i) + InGraph(i) + InBatch(i) + InFlight(i) <= 1

\* C6 witness: four ids, one in each place.
C6_Witness ==
    \E i, j, k, l \in Ids :
        InQueue(i) = 1 /\ InGraph(j) = 1 /\ InBatch(k) = 1 /\ InFlight(l) = 1

\* C7: a summary never reports more scanned transactions than the scan cap.
C7_ScanCap ==
    result.tag = "summary" =>
        result.num_scheduled + result.num_unschedulable
            <= config.max_scanned_transactions_per_scheduling_pass

\* C7 witness: a pass that stopped at the cap and left unscanned ids queued.
C7_Witness ==
    /\ pc = "idle" /\ result.tag = "summary" /\ result.num_scheduled > 0
    /\ result.num_scheduled + result.num_unschedulable
          = config.max_scanned_transactions_per_scheduling_pass
    /\ \E i \in Queued(container) : i \notin hist.deferred

\* The locks the finished-work channel is about to release on thread t:
\* how many transactions of its batches of thread t access a with that kind.
Releasing(kind, a, t) ==
    Cardinality({kj \in (1..Len(finished_consume_work)) \X (1..Cardinality(Ids)) :
        /\ in_flight_tracker.batches[finished_consume_work[kj[1]].work.batch_id]
              .thread_id = t
        /\ kj[2] <= Len(finished_consume_work[kj[1]].work.ids)
        /\ a \in (IF kind = "write"
                  THEN txs[finished_consume_work[kj[1]].work.ids[kj[2]]].writes
                  ELSE txs[finished_consume_work[kj[1]].work.ids[kj[2]]].reads)})

\* receive_completed releases exactly the locks of the batches it processes.
ReleasesLocks ==
    (pc = "idle" /\ finished_consume_work # <<>> /\ finished_consume_work' = <<>>)
        => \A a \in Accounts : \A t \in Threads :
              /\ account_locks'.write[a][t]
                    = account_locks.write[a][t] - Releasing("write", a, t)
              /\ account_locks'.read[a][t]
                    = account_locks.read[a][t] - Releasing("read", a, t)

AllAtCap ==
    \A t \in Threads :
        in_flight_tracker.cus_in_flight_per_thread[t] >= max_cu_per_thread

\* C9: a pass that starts with every thread at its cap returns the zero
\* summary and changes nothing else.
C9_AllAtCapNoOp ==
    [][(AllAtCap /\ \E f \in PreGraphFilters : schedule(f))
          => /\ result' = SchedulingSummary(0, 0, 0)
             /\ UNCHANGED <<container, prio_graph, account_locks, in_flight_tracker,
                            consume_work, finished_consume_work, pc, local>>
      ]_vars

\* C9 witness: schedule returned the zero summary with every thread at its
\* cap and transactions still queued.
C9_Witness ==
    /\ pc = "idle" /\ AllAtCap /\ result = SchedulingSummary(0, 0, 0)
    /\ Queued(container) # {}

\* C10: once every thread was removed from the schedulable set, the pass
\* assigns no further transaction.
C10_Backpressure ==
    [][(InPass /\ local.schedulable_threads = {} /\ pc' # "idle")
          => local'.assigned = local.assigned]_vars

\* The transactions of the workload touch pairwise disjoint accounts.
PairwiseDisjoint ==
    \A i \in Ids : \A j \in Ids \ {i} : account_keys(i) \cap account_keys(j) = {}

C12_EmptyContainer ==
    [][/\ ((\E f \in PreGraphFilters : schedule(f)) /\ Queued(container) = {})
          => /\ \/ pc' = "finish" /\ local'.start_queued = 0
                \/ pc' = "idle" /\ result' = SchedulingSummary(0, 0, 0)
             /\ UNCHANGED <<container, account_locks, in_flight_tracker,
                            consume_work>>
       /\ (pc = "finish" /\ pc' = "idle" /\ local.start_queued = 0)
          => /\ result' = SchedulingSummary(0, 0, 0)
             /\ UNCHANGED <<container, account_locks, in_flight_tracker,
                            consume_work>>
      ]_vars

\* C12 witness: a pass that was not cut short by the cu caps returned the
\* zero summary over an empty container.
C12_Witness ==
    /\ pc = "idle" /\ result = SchedulingSummary(0, 0, 0)
    /\ Queued(container) = {}
    /\ \E t \in Threads :
          in_flight_tracker.cus_in_flight_per_thread[t] < max_cu_per_thread

DisconnectedSendChannel == [tag |-> "err", msg |-> "DisconnectedSendChannel"]
DisconnectedRecvChannel == [tag |-> "err", msg |-> "DisconnectedRecvChannel"]

\* The threads for which this step tracked a new batch, that is, took a
\* non-empty batch to send it.
FlushedThreads ==
    {in_flight_tracker'.batches[b].thread_id :
        b \in DOMAIN in_flight_tracker'.batches \ DOMAIN in_flight_tracker.batches}

\* C13: a step of schedule that flushes a non-empty batch for a thread whose
\* consume channel is disconnected returns Err(DisconnectedSendChannel), not
\* a summary.
C13_DisconnectedSend ==
    [][/\ (\E t \in FlushedThreads : ~connected.consume[t])
          => pc' = "idle" /\ result' = DisconnectedSendChannel
       /\ (/\ pc \in {"flush", "finish"} /\ pc' # pc
           /\ \E t \in Threads :
                 local.batches.ids[t] # <<>> /\ ~connected.consume[t])
          => pc' = "idle" /\ result' = DisconnectedSendChannel
      ]_vars

\* C13 witness: schedule returned Err(DisconnectedSendChannel) and a batch is
\* tracked for a disconnected thread.
C13_Witness ==
    /\ pc = "idle" /\ result = DisconnectedSendChannel
    /\ \E b \in DOMAIN in_flight_tracker.batches :
          ~connected.consume[in_flight_tracker.batches[b].thread_id]

\* C14: receive_completed returns Err(DisconnectedRecvChannel) when the
\* finished-work channel is closed, and Ok((0, 0)), changing nothing, when
\* the channel is empty and still connected.
C14_DisconnectedRecv ==
    [][receive_completed
          => /\ ~connected.finished => result' = DisconnectedRecvChannel
             /\ (connected.finished /\ finished_consume_work = <<>>)
                   => /\ result' = [tag |-> "completed", num_transactions |-> 0,
                                    num_retryable |-> 0]
                      /\ UNCHANGED <<container, account_locks, in_flight_tracker>>
             /\ connected.finished => result'.tag = "completed"
      ]_vars

\* C14 witness: receive_completed returned Err(DisconnectedRecvChannel) on
\* the closed channel, after batches had been dispatched.
C14_Witness ==
    /\ pc = "idle" /\ result = DisconnectedRecvChannel
    /\ ~connected.finished
    /\ in_flight_tracker.next_batch_id > 0

\* The ids at the retryable indexes of the batches in the finished-work
\* channel, and the other ids of those batches.
RetryableIds ==
    UNION {{finished_consume_work[k].work.ids[x + 1] :
               x \in SeqToSet(finished_consume_work[k].retryable_indexes)} :
           k \in 1..Len(finished_consume_work)}
FinishedIds ==
    UNION {SeqToSet(finished_consume_work[k].work.ids) :
           k \in 1..Len(finished_consume_work)}

\* C15: receive_completed retries exactly the ids at the retryable indexes of
\* the batches it drains (state back in the container, id queued once more),
\* removes exactly the other ids of those batches, leaves every other id
\* alone, and returns the numbers of transactions and of retryable indexes
\* summed over the batches.
C15_RetryOrRemove ==
    [][(receive_completed /\ connected.finished)
          => /\ \A i \in RetryableIds :
                   /\ container'.state[i] = "Unprocessed"
                   /\ container'.queue[i] = container.queue[i] + 1
             /\ \A i \in FinishedIds \ RetryableIds :
                   /\ container'.state[i] = "Absent"
                   /\ container'.queue[i] = container.queue[i]
             /\ \A i \in Ids \ FinishedIds :
                   /\ container'.state[i] = container.state[i]
                   /\ container'.queue[i] = container.queue[i]
             /\ result' =
                   [tag |-> "completed",
                    num_transactions |->
                        SeqSum([k \in 1..Len(finished_consume_work) |->
                                   Len(finished_consume_work[k].work.ids)]),
                    num_retryable |->
                        SeqSum([k \in 1..Len(finished_consume_work) |->
                                   Len(finished_consume_work[k].retryable_indexes)])]
      ]_vars

\* C15 witness: one call drained two single-transaction batches, one of them
\* retryable; one id is back in the queue and one is removed.
C15_Witness ==
    /\ pc = "idle" /\ config.target_transactions_per_batch = 1
    /\ result = [tag |-> "completed", num_transactions |-> 2, num_retryable |-> 1]
    /\ \E i \in Ids : txs[i] # NoTx /\ container.state[i] = "Absent"
    /\ \E i \in Ids : container.state[i] = "Unprocessed" /\ container.queue[i] = 1

\* C16: a call of receive_completed returns in the step it is made, with
\* whatever the channel then holds: when it returns Ok the finished-work
\* channel is empty and every batch that was in it is completed in the
\* tracker, and the batches still with the workers are neither awaited nor
\* touched.
C16_Drains ==
    [][receive_completed
          => /\ pc' = "idle"
             /\ result'.tag = "completed"
                   => /\ finished_consume_work' = <<>>
                      /\ \A k \in 1..Len(finished_consume_work) :
                            finished_consume_work[k].work.batch_id
                                \notin DOMAIN in_flight_tracker'.batches
                      /\ \A b \in DOMAIN in_flight_tracker.batches :
                            (\A k \in 1..Len(finished_consume_work) :
                                finished_consume_work[k].work.batch_id # b)
                              => b \in DOMAIN in_flight_tracker'.batches
                      /\ consume_work' = consume_work
      ]_vars

\* C16 witness: one call drained several batches and returned while another
\* batch was still with its worker.
C16_Witness ==
    /\ pc = "idle" /\ config.target_transactions_per_batch = 1
    /\ result.tag = "completed" /\ result.num_transactions >= 2
    /\ finished_consume_work = <<>>
    /\ \E t \in Threads : consume_work[t] # <<>>

\* What select_thread compares: the compute units and the transaction count
\* a thread would carry.
SelectCusOf(t) ==
    local.batches.total_cus[t] + in_flight_tracker.cus_in_flight_per_thread[t]
SelectNumOf(t) ==
    Len(local.batches.ids[t]) + in_flight_tracker.num_in_flight_per_thread[t]

IdleAtStart ==
    /\ \A t \in Threads :
          in_flight_tracker.num_in_flight_per_thread[t]
              = Cardinality({k \in 1..Len(local.assigned) :
                               /\ local.assigned[k][2] = t
                               /\ \A x \in 1..Len(local.batches.ids[t]) :
                                     local.batches.ids[t][x] # local.assigned[k][1]})
EqualCost ==
    \A i \in Ids : \A j \in Ids :
        (txs[i] # NoTx /\ txs[j] # NoTx) => txs[i].cost = txs[j].cost

\* C18: in a pass over pairwise-disjoint transactions of equal cost that
\* starts with idle threads, the whole queue inside the look-ahead window and
\* no thread reaching its cap, the k-th assignment (k from 0) is the k-th
\* transaction in descending priority order and goes to thread k mod N.
C18_RoundRobin ==
    (/\ InPass /\ PairwiseDisjoint /\ EqualCost /\ IdleAtStart
     /\ local.start_queued <= config.look_ahead_window_size
     /\ local.schedulable_threads = Threads)
        => \A k \in 1..Len(local.assigned) :
              /\ local.assigned[k][2] = (k - 1) % config.num_threads
              /\ \A i \in Ids :
                    (/\ container.state[i] # "Absent"
                     /\ i # local.assigned[k][1]
                     /\ Before(i, local.assigned[k][1]))
                        => \E j \in 1..(k - 1) : local.assigned[j][1] = i

\* C18 witness: two threads and priorities 3, 2, 1, 0 (ids 0 to 3): thread 0
\* received the batch of priorities [3, 1], thread 1 that of [2, 0].
C18_Witness ==
    /\ config.num_threads = 2 /\ PairwiseDisjoint /\ EqualCost
    /\ pc = "idle" /\ result = SchedulingSummary(4, 0, 0)
    /\ consume_work[0] = <<[batch_id |-> 0, ids |-> <<0, 2>>]>>
    /\ consume_work[1] = <<[batch_id |-> 1, ids |-> <<1, 3>>]>>

\* The ids assigned to thread t in the running pass, in order of assignment.
RECURSIVE AssignedOn(_, _)
AssignedOn(assigned, t) ==
    IF assigned = <<>> THEN <<>>
    ELSE IF Head(assigned)[2] = t
         THEN <<Head(assigned)[1]>> \o AssignedOn(Tail(assigned), t)
         ELSE AssignedOn(Tail(assigned), t)

IsSuffix(s, w) ==
    /\ Len(s) <= Len(w)
    /\ \A k \in 1..Len(s) : s[k] = w[Len(w) - Len(s) + k]

\* The transaction assigned to thread t by the step, if any.
NewlyAssigned(t) ==
    IF /\ pc' # "idle"
       /\ Len(local'.assigned) > Len(local.assigned)
       /\ local'.assigned[Len(local'.assigned)][2] = t
    THEN <<local'.assigned[Len(local'.assigned)][1]>>
    ELSE <<>>

\* C19: within a pass, pairwise-disjoint transactions are assigned in
\* descending priority order; the batch being assembled for a thread is the
\* tail of what the pass assigned to that thread, in that order; and every
\* ConsumeWork sent to a thread is that tail (with the transaction assigned
\* in the same step), appended to the thread's channel.
C19_Order ==
    [][/\ (InPass /\ PairwiseDisjoint)
          => \A k \in 1..(Len(local.assigned) - 1) :
                Before(local.assigned[k][1], local.assigned[k + 1][1])
       /\ InPass
          => \A t \in Threads :
                IsSuffix(local.batches.ids[t], AssignedOn(local.assigned, t))
       /\ \A t \in Threads :
            Len(consume_work'[t]) > Len(consume_work[t])
              => /\ InPass
                 /\ \E b \in 0..in_flight_tracker.next_batch_id + config.num_threads :
                       consume_work'[t] =
                           Append(consume_work[t],
                                  [batch_id |-> b,
                                   ids |-> local.batches.ids[t] \o NewlyAssigned(t)])
      ]_vars

\* C19 witness: one thread received the four disjoint transactions in two
\* batches, highest priority first.
C19_Witness ==
    /\ config.num_threads = 1 /\ PairwiseDisjoint
    /\ consume_work[0] = <<[batch_id |-> 0, ids |-> <<0, 1>>],
                           [batch_id |-> 1, ids |-> <<2, 3>>]>>

\* Every ConsumeWork that sits in a worker's channel or, processed, in the
\* finished channel.
AllWork ==
    UNION {SeqToSet(consume_work[t]) : t \in Threads}
    \cup {finished_consume_work[k].work : k \in 1..Len(finished_consume_work)}

\* The ids in the batches being assembled.
PendingIds == UNION {SeqToSet(local.batches.ids[t]) : t \in Threads}

\* C20: no ConsumeWork holds two transactions with conflicting accesses, and
\* of two conflicting transactions assigned in one pass the higher-priority
\* one is assigned first, has left its batch when the other is assigned, and
\* sits in a ConsumeWork with a smaller batch id.
C20_ConflictOrder ==
    /\ \A w \in AllWork : \A a \in 1..Len(w.ids) : \A b \in 1..Len(w.ids) :
          a # b => ~Conflict(w.ids[a], w.ids[b])
    /\ InPass =>
          \A k \in 1..Len(local.assigned) : \A l \in 1..Len(local.assigned) :
             (k < l /\ Conflict(local.assigned[k][1], local.assigned[l][1]))
                => /\ Before(local.assigned[k][1], local.assigned[l][1])
                   /\ local.assigned[k][1] \notin PendingIds
                   /\ \A w \in AllWork : \A v \in AllWork :
                         (/\ local.assigned[k][1] \in SeqToSet(w.ids)
                          /\ local.assigned[l][1] \in SeqToSet(v.ids))
                             => w.batch_id < v.batch_id

\* C20 witness: one thread, two transactions writing the same account: the
\* pass sent the higher-priority one in batch 0 and the other in batch 1.
C20_Witness ==
    /\ config.num_threads = 1
    /\ Conflict(0, 1) /\ Before(1, 0)
    /\ pc = "idle" /\ result = SchedulingSummary(2, 0, 0)
    /\ consume_work[0] = <<[batch_id |-> 0, ids |-> <<1>>],
                           [batch_id |-> 1, ids |-> <<0>>]>>

\* A step that sends a ConsumeWork to thread t.
Sends(t) == Len(consume_work'[t]) > Len(consume_work[t])

\* The ConsumeWork such a step sends.
Sent(t) == consume_work'[t][Len(consume_work'[t])]

\* A pass on one thread over a multiple of the target of pairwise-disjoint
\* transactions, none of them filtered out.
MultiBatchPass ==
    /\ InPass /\ config.num_threads = 1 /\ PairwiseDisjoint
    /\ local.start_queued % config.target_transactions_per_batch = 0
    /\ local.pre_graph_filter = {}

\* C21 as stated: every ConsumeWork holds between one and target
\* transactions, no batch being assembled has reached the target, and every
\* batch a multi-batch pass sends has exactly target transactions.
C21_Original ==
    [][/\ \A w \in AllWork :
             Len(w.ids) \in 1..config.target_transactions_per_batch
       /\ InPass => \A t \in Threads :
             Len(local.batches.ids[t]) < config.target_transactions_per_batch
       /\ (MultiBatchPass /\ Sends(0))
             => Len(Sent(0).ids) = config.target_transactions_per_batch
      ]_vars

\* C21 with the premises the last part needs: the look-ahead window is a
\* multiple of the target or holds the whole queue, the scan cap is not
\* below the queue length, and the thread has not reached its cap.
C21_BatchSize ==
    [][/\ \A w \in AllWork :
             Len(w.ids) \in 1..config.target_transactions_per_batch
       /\ InPass => \A t \in Threads :
             Len(local.batches.ids[t]) < config.target_transactions_per_batch
       /\ (/\ MultiBatchPass /\ Sends(0)
           /\ \/ config.look_ahead_window_size
                    % config.target_transactions_per_batch = 0
              \/ local.start_queued <= config.look_ahead_window_size
           /\ local.start_queued
                 <= config.max_scanned_transactions_per_scheduling_pass
           /\ local.schedulable_threads = Threads)
             => Len(Sent(0).ids) = config.target_transactions_per_batch
      ]_vars

\* C21 witness: one thread, window 4, target 2: the pass dispatched the four
\* disjoint transactions as batches 0 and 1, each of two.
C21_Witness ==
    /\ config.num_threads = 1 /\ PairwiseDisjoint
    /\ config.look_ahead_window_size = 4
    /\ config.target_transactions_per_batch = 2
    /\ pc = "idle" /\ result = SchedulingSummary(4, 0, 0)
    /\ in_flight_tracker.next_batch_id = 2
    /\ Len(consume_work[0]) = 2
    /\ \A k \in 1..2 : Len(consume_work[0][k].ids) = 2

C23_Original ==
    \A a \in Accounts : \A t \in Threads :
        account_locks.read[a][t] > 0
            => \A u \in Threads : account_locks.write[a][u] = 0

\* C23 without "including T": an account read-locked by a thread is
\* write-locked by no other thread.
C23_ReadExcludesOtherWriters ==
    \A a \in Accounts : \A t \in Threads :
        account_locks.read[a][t] > 0
            => \A u \in Threads \ {t} : account_locks.write[a][u] = 0

\* C23 witness: with two threads, thread 1 holds an account both as Read and
\* as Write, through two transactions in flight.
C23_Witness ==
    /\ config.num_threads = 2 /\ pc = "idle"
    /\ \E a \in Accounts :
          /\ account_locks.read[a][1] > 0
          /\ account_locks.write[a][1] > 0

\* C24: a step of a pass that assigns a transaction assigns it to a thread
\* that is still in the schedulable set of the pass.
C24_NoAssignAfterRemoval ==
    [][(/\ ScanTransaction /\ pc' # "idle"
        /\ Len(local'.assigned) > Len(local.assigned))
          => local'.assigned[Len(local'.assigned)][2] \in local.schedulable_threads
      ]_vars

\* The ids held by the ConsumeWork messages in the channels.
WorkIds == UNION {SeqToSet(w.ids) : w \in AllWork}

\* C25: the assertion of schedule never fails. During a pass num_scheduled
\* counts the assignments, num_sent counts those of them that sit in a
\* ConsumeWork, and the rest sit in the batches being assembled; a pass that
\* reaches its end without a channel error returns Ok with num_scheduled
\* equal to the number of its assignments, every one of them in a
\* ConsumeWork.
C25_ScheduledEqualsSent ==
    [][/\ result # [tag |-> "panic",
                    msg |-> "number of scheduled and sent transactions must match"]
       /\ InPass
            => /\ local.num_scheduled = Len(local.assigned)
               /\ local.num_scheduled = Cardinality(AssignedIds)
               /\ local.num_sent = Cardinality(AssignedIds \cap WorkIds)
               /\ PendingIds = AssignedIds \ WorkIds
       /\ (FinishPass /\ result' # [tag |-> "err", msg |-> "DisconnectedSendChannel"])
            => /\ pc' = "idle"
               /\ result'.tag = "summary"
               /\ result'.num_scheduled = Len(local.assigned)
               /\ AssignedIds \subseteq WorkIds'
      ]_vars

\* C25 witness: a pass on two threads has returned Ok with three
\* transactions scheduled, all three in the workers' channels.
C25_Witness ==
    /\ config.num_threads = 2
    /\ pc = "idle" /\ result.tag = "summary" /\ result.num_scheduled = 3
    /\ finished_consume_work = <<>>
    /\ Cardinality(WorkIds) = 3
    /\ consume_work[0] # <<>> /\ consume_work[1] # <<>>

\* C26: a pass that returns Ok has scanned as many transactions as the scan
\* cap allows, or leaves nothing queued but the ids it recorded unschedulable.
C26_RunsToExhaustion ==
    [][(FinishPass /\ pc' = "idle")
          => \/ local.num_scanned
                   = config.max_scanned_transactions_per_scheduling_pass
             \/ Queued(container') \subseteq SeqToSet(local.unschedulable_ids)
      ]_vars

\* A step of the scan that records the popped transaction unschedulable.
RecordsUnschedulable ==
    /\ ScanTransaction /\ pc' # "idle"
    /\ Len(local'.unschedulable_ids) > Len(local.unschedulable_ids)

\* C27: the step that records a transaction unschedulable changes neither
\* the lock table nor the batches, the tracker or the channels, leaves the
\* transaction in the container in its unscheduled state, adds one to
\* num_unschedulable and records the id once; a pass that returns Ok has
\* pushed every recorded id into the container queue once and reports their
\* number.
C27_Unschedulable ==
    [][/\ RecordsUnschedulable
            => LET id == Top(prio_graph.main)
               IN  /\ UNCHANGED <<account_locks, in_flight_tracker, consume_work,
                                  container>>
                   /\ local'.batches = local.batches
                   /\ local'.assigned = local.assigned
                   /\ container.state[id] = "Unprocessed"
                   /\ container.queue[id] = 0
                   /\ id \notin SeqToSet(local.unschedulable_ids)
                   /\ local'.unschedulable_ids = Append(local.unschedulable_ids, id)
                   /\ local'.num_unschedulable = local.num_unschedulable + 1
       /\ (FinishPass /\ pc' = "idle")
            => /\ result'.num_unschedulable = Len(local.unschedulable_ids)
               /\ result'.num_unschedulable
                     = Cardinality(SeqToSet(local.unschedulable_ids))
               /\ \A i \in SeqToSet(local.unschedulable_ids) :
                     /\ container'.queue[i] = 1
                     /\ container'.state[i] = "Unprocessed"
                     /\ i \notin WorkIds'
      ]_vars

\* C27 witness: a pass over mixed reads and writes has returned Ok with one
\* transaction recorded unschedulable, which is queued again and holds no
\* lock of its own.
C27_Witness ==
    /\ pc = "idle" /\ result.tag = "summary"
    /\ result.num_unschedulable = 1 /\ result.num_scheduled = 2
    /\ \E i \in hist.deferred :
          /\ hist.deferred = {i}
          /\ container.queue[i] = 1 /\ container.state[i] = "Unprocessed"
          /\ i \notin WorkIds
          /\ txs[i].reads # {} \/ txs[i].writes = {"a", "b"}

\* The transactions a step removes from the container.
Removed == {i \in Ids : container.state[i] # "Absent" /\ container'.state[i] = "Absent"}

\* The transactions a step pops from the container queue.
Popped == {i \in Ids : container'.queue[i] < container.queue[i]}

\* A step of a pass that neither panics nor returns Err.
PassStep ==
    /\ \/ pc = "idle" /\ pc' \in {"scan", "flush", "finish"}
       \/ InPass
    /\ pc' # "panicked"
    /\ pc' = "idle" => result'.tag = "summary"

\* The filter of the pass the step belongs to, and the count of filtered
\* transactions before and after the step.
FilterOfStep == IF pc = "idle" THEN local'.pre_graph_filter ELSE local.pre_graph_filter
FilteredBefore == IF pc = "idle" THEN 0 ELSE local.num_filtered_out
FilteredAfter == IF pc' = "idle" THEN result'.num_filtered_out ELSE local'.num_filtered_out

\* C28: in every step of a pass the transactions popped from the queue that
\* the filter marks false are removed from the container and not inserted
\* into the graph, nothing else is removed, and the count of filtered
\* transactions grows by the number removed, up to the num_filtered_out of
\* the summary; no transaction the filter marks false is ever in the graph,
\* recorded unschedulable, assigned, or in a batch of the pass.
C28_FilteredOut ==
    [][/\ PassStep
            => /\ Removed = Popped \cap FilterOfStep
               /\ Removed \cap prio_graph'.nodes = {}
               /\ FilteredAfter = FilteredBefore + Cardinality(Removed)
       /\ InPass
            => /\ local.pre_graph_filter \cap prio_graph.nodes = {}
               /\ local.pre_graph_filter \cap AssignedIds = {}
               /\ local.pre_graph_filter \cap PendingIds = {}
               /\ local.pre_graph_filter \cap SeqToSet(local.unschedulable_ids) = {}
      ]_vars

\* C28 witness: a pass over the four disjoint transactions whose filter
\* marks id 2 false has returned: three scheduled, one filtered out, id 2
\* gone from the container and in no ConsumeWork.
C28_Witness ==
    /\ PairwiseDisjoint /\ pc = "idle"
    /\ result = SchedulingSummary(3, 0, 1)
    /\ container.state[2] = "Absent" /\ container.queue[2] = 0
    /\ 2 \notin WorkIds /\ WorkIds = {0, 1, 3}

\* C29: a pass that returns Ok leaves the priority graph empty, and every
\* id still in the graph at the end of the loop, none of which was popped,
\* is queued in the container again, once, in its unscheduled state.
C29_GraphDrained ==
    [][/\ (pc = "finish")
            => /\ SeqToSet(local.unblock_this_batch) = {}
               /\ prio_graph.nodes \cap (AssignedIds \cup SeqToSet(local.unschedulable_ids)) = {}
               /\ \A i \in prio_graph.nodes : container.queue[i] = 0
       /\ (FinishPass /\ pc' = "idle")
            => /\ prio_graph' = EmptyGraph
               /\ \A i \in prio_graph.nodes :
                     /\ container'.queue[i] = 1
                     /\ container'.state[i] = "Unprocessed"
       /\ (\E f \in PreGraphFilters : schedule(f)) => prio_graph = EmptyGraph
      ]_vars

\* C29 witness: three writers of one account, scan cap 1: the pass has
\* scheduled id 0 and returned Ok; id 1 and id 2, which id 1 blocked in the
\* graph, are queued again and the graph is empty.
C29_Witness ==
    /\ txs = Chain /\ pc = "idle"
    /\ result = SchedulingSummary(1, 0, 0)
    /\ prio_graph = EmptyGraph
    /\ WorkIds = {0}
    /\ Queued(container) = {1, 2}

\* The sum of the costs of a set of transactions.
RECURSIVE CostSum(_)
CostSum(S) ==
    IF S = {} THEN 0
    ELSE LET i == CHOOSE x \in S : TRUE IN txs[i].cost + CostSum(S \ {i})

\* C30: between calls, for every thread the in-flight counters are the
\* number and the cost sum of the transactions in the ConsumeWork sent to
\* the thread and not yet completed, and the locks the thread holds on an
\* account are one per such transaction that writes, respectively reads, it.
C30_Outstanding ==
    pc = "idle" =>
        \A t \in Threads :
            /\ in_flight_tracker.num_in_flight_per_thread[t]
                  = Cardinality(SentOn(t))
            /\ in_flight_tracker.cus_in_flight_per_thread[t] = CostSum(SentOn(t))
            /\ \A a \in Accounts :
                  /\ account_locks.write[a][t]
                        = Cardinality({i \in SentOn(t) : a \in txs[i].writes})
                  /\ account_locks.read[a][t]
                        = Cardinality({i \in SentOn(t) : a \in txs[i].reads})

\* C30 witness: receive_completed has processed a batch of thread 0 while
\* thread 0 still has a batch outstanding and holds a write lock for it.
C30_Witness ==
    /\ pc = "idle" /\ result.tag = "completed" /\ result.num_transactions > 0
    /\ in_flight_tracker.num_in_flight_per_thread[0] > 0
    /\ DOMAIN in_flight_tracker.batches # {}
    /\ \E a \in Accounts : account_locks.write[a][0] > 0

\* A step lowers a lock count or an in-flight counter of thread t.
Lowers(t) ==
    \/ in_flight_tracker'.num_in_flight_per_thread[t]
          < in_flight_tracker.num_in_flight_per_thread[t]
    \/ in_flight_tracker'.cus_in_flight_per_thread[t]
          < in_flight_tracker.cus_in_flight_per_thread[t]
    \/ \E a \in Accounts :
          \/ account_locks'.write[a][t] < account_locks.write[a][t]
          \/ account_locks'.read[a][t] < account_locks.read[a][t]

\* C31: a step that lowers a lock count or an in-flight counter is a step of
\* receive_completed that processes a FinishedConsumeWork, and it lowers the
\* lock counts by the locks of the batches it processes; in every state a
\* thread holds, for every account, at least one lock per transaction of a
\* ConsumeWork sent to it and not yet processed.
C31_OnlyCompletionDecrements ==
    [][/\ (\E t \in Threads : Lowers(t))
            => /\ pc = "idle" /\ pc' = "idle"
               /\ finished_consume_work # <<>>
               /\ finished_consume_work' = <<>>
               /\ result'.tag = "completed" /\ result'.num_transactions > 0
               /\ ReleasesLocks
       /\ \A t \in Threads : \A a \in Accounts :
             /\ account_locks.write[a][t]
                   >= Cardinality({i \in SentOn(t) : a \in txs[i].writes})
             /\ account_locks.read[a][t]
                   >= Cardinality({i \in SentOn(t) : a \in txs[i].reads})
      ]_vars

\* C31 witness: receive_completed has processed the last outstanding batch:
\* batches were sent, and no lock is held and no counter is above zero.
C31_Witness ==
    /\ pc = "idle" /\ result.tag = "completed" /\ result.num_transactions > 0
    /\ in_flight_tracker.next_batch_id > 0
    /\ DOMAIN in_flight_tracker.batches = {}
    /\ \A t \in Threads :
          /\ in_flight_tracker.num_in_flight_per_thread[t] = 0
          /\ in_flight_tracker.cus_in_flight_per_thread[t] = 0
          /\ \A a \in Accounts :
                account_locks.write[a][t] = 0 /\ account_locks.read[a][t] = 0

\* The threads that hold a lock the transaction conflicts with: a write lock
\* on one of its accounts, or a read lock on an account it writes.
ConflictingHolders(id) ==
    {t \in Threads :
        \E a \in account_keys(id) :
            \/ account_locks.write[a][t] > 0
            \/ a \in txs[id].writes /\ account_locks.read[a][t] > 0}

\* The compute units and the transactions thread t has in its batch and in
\* flight.
LoadCus(t) ==
    local.batches.total_cus[t] + in_flight_tracker.cus_in_flight_per_thread[t]
LoadNum(t) ==
    Len(local.batches.ids[t]) + in_flight_tracker.num_in_flight_per_thread[t]

\* The transaction the next pop of the priority graph returns.
NextId == graph_pop(prio_graph).id

OutstandingBatchIds ==
    UNION {{<<t, k, consume_work[t][k].batch_id>> : k \in 1..Len(consume_work[t])} : t \in Threads}
    \cup {<<-1, k, finished_consume_work[k].work.batch_id>> : k \in 1..Len(finished_consume_work)}

\* C33: a step that sends a ConsumeWork gives it a batch id that is at least
\* the next batch id before the step and below the one after it, and of two
\* messages sent in one step the one sent first (to the lower thread) has the
\* lower id; the next batch id never decreases; every message not yet
\* processed has a batch id below the next batch id, and no two of them share
\* one. Hence every ConsumeWork carries an id above all those sent before.
C33_BatchIdsIncrease ==
    [][/\ in_flight_tracker'.next_batch_id >= in_flight_tracker.next_batch_id
       /\ \A t \in Threads :
             Sends(t)
               => /\ Sent(t).batch_id >= in_flight_tracker.next_batch_id
                  /\ Sent(t).batch_id < in_flight_tracker'.next_batch_id
                  /\ \A u \in Threads :
                        (u < t /\ Sends(u)) => Sent(u).batch_id < Sent(t).batch_id
       /\ \A m \in OutstandingBatchIds :
             /\ m[3] < in_flight_tracker.next_batch_id
             /\ \A n \in OutstandingBatchIds \ {m} : n[3] # m[3]
      ]_vars

\* C33 witness: between passes, the first batch has been processed and a
\* later pass has sent a batch to a worker that has not taken it yet.
C33_Witness ==
    /\ pc = "idle"
    /\ 0 \notin DOMAIN in_flight_tracker.batches
    /\ \A m \in OutstandingBatchIds : m[3] # 0
    /\ \E t \in Threads : \E k \in 1..Len(consume_work[t]) :
          consume_work[t][k].batch_id >= 2

\* The ids of the ConsumeWork messages not yet processed, in the state after
\* the step.
OutstandingAfter(t) == SentOn(t)'

\* C34: receive_completed leaves every id at a retryable index of a batch it
\* processes in the container, Unprocessed and queued, in no outstanding
\* ConsumeWork, and with no lock held for it: on each of its accounts every
\* thread holds just the locks of the transactions still outstanding on the
\* thread. A step that sends a ConsumeWork with an id retried before gives the
\* message a fresh batch id and holds the locks of the id on the thread it is
\* sent to.
C34_Retry ==
    [][/\ (receive_completed /\ connected.finished)
          => \A i \in RetryableIds :
                /\ container'.state[i] = "Unprocessed"
                /\ container'.queue[i] >= 1
                /\ i \in hist'.retried
                /\ \A t \in Threads :
                      /\ i \notin OutstandingAfter(t)
                      /\ \A a \in account_keys(i) :
                            /\ account_locks'.write[a][t]
                                  = Cardinality({j \in OutstandingAfter(t) :
                                                   a \in txs[j].writes})
                            /\ account_locks'.read[a][t]
                                  = Cardinality({j \in OutstandingAfter(t) :
                                                   a \in txs[j].reads})
       /\ \A t \in Threads :
             Sends(t)
               => \A i \in SeqToSet(Sent(t).ids) \cap hist.retried :
                     /\ Sent(t).batch_id >= in_flight_tracker.next_batch_id
                     /\ container'.state[i] = "Pending"
                     /\ \A a \in txs[i].writes : account_locks'.write[a][t] >= 1
                     /\ \A a \in txs[i].reads : account_locks'.read[a][t] >= 1
      ]_vars

\* C34 witness: an id that was retried sits in a ConsumeWork of a later pass,
\* which a worker has not taken yet.
C34_Witness ==
    /\ pc = "idle"
    /\ \E t \in Threads : \E k \in 1..Len(consume_work[t]) :
          /\ consume_work[t][k].batch_id >= 1
          /\ SeqToSet(consume_work[t][k].ids) \cap hist.retried # {}

\* C35: schedule never panics in select_thread; a step of a pass that defers
\* the transaction it popped calls no selector, and a step that assigns it
\* had at least one feasible thread for it and assigns it to one of them.
C35_SelectorNeverEmpty ==
    [][/\ result' # [tag |-> "panic", msg |-> "select_thread"]
       /\ (/\ ScanTransaction /\ pc' # "idle"
           /\ Len(local'.assigned) > Len(local.assigned))
             => /\ Lockable(account_locks, NextId) # {}
                /\ local'.assigned[Len(local'.assigned)][2]
                      \in Lockable(account_locks, NextId)
       /\ (/\ ScanTransaction
           /\ container.state[NextId] = "Unprocessed"
           /\ check_locks(local.blocking_locks, NextId)
           /\ Lockable(account_locks, NextId) = {})
             => /\ pc' \in {"scan", "flush"}
                /\ local'.unschedulable_ids = Append(local.unschedulable_ids, NextId)
                /\ local'.assigned = local.assigned
      ]_vars

\* C35 witness: a pass deferred a transaction the blocking set did not stop:
\* no thread was feasible for it, and the selector was not called.
C35_Witness ==
    /\ InPass
    /\ local.lock_deferred # {}
    /\ local.assigned # <<>>

\* C36: a pass that was entered returns; at no point of a pass has it scanned
\* more than max_scanned_transactions_per_scheduling_pass transactions; and
\* the outer loop goes round again only with a transaction to pop in the
\* priority graph, every pop counting as one scanned transaction.
C36_PassTerminates ==
    /\ InPass ~> pc = "idle"
    /\ [](InPass => local.num_scanned
                       <= config.max_scanned_transactions_per_scheduling_pass)
    /\ [][/\ (pc' = "scan")
               => /\ ~is_empty(prio_graph')
                  /\ local'.num_scanned
                        < config.max_scanned_transactions_per_scheduling_pass
          /\ (ScanTransaction /\ pc' # "idle")
               => local'.num_scanned = local.num_scanned + 1
         ]_vars

\* C36 witness: a pass went round the outer loop, reached the scan cap with
\* two or more transactions scanned, and left the loop with ids still queued.
C36_Witness ==
    /\ pc = "finish"
    /\ local.num_scanned = config.max_scanned_transactions_per_scheduling_pass
    /\ local.num_scanned >= 2
    /\ local.num_sent > 0
    /\ ~is_empty(prio_graph)

\* The transactions inserted into the priority graph and not yet popped: the
\* popped ones stay in the graph until the round unblocks them.
Unpopped == prio_graph.nodes \ SeqToSet(local.unblock_this_batch)

\* C37: at every point of a pass, the number of transactions inserted into
\* the priority graph and not yet popped, plus the remaining window_budget,
\* is at most look_ahead_window_size.
C37_WindowBound ==
    InPass =>
        Cardinality(Unpopped) + local.window_budget
            <= config.look_ahead_window_size

\* C37 witness: after a refill the window is full again (as many unpopped
\* transactions as look_ahead_window_size, two or more) with transactions
\* already scanned in the pass.
C37_Witness ==
    /\ pc = "scan" /\ local.num_scanned > 0
    /\ local.unblock_this_batch = <<>>
    /\ Cardinality(Unpopped) = config.look_ahead_window_size
    /\ Cardinality(Unpopped) >= 2

\* C38: every deferral of a pass is an UnschedulableConflicts: the errors
\* try_schedule_transaction returned in the pass hold nothing else, and a
\* pass that deferred a transaction holds that one.
C38_NoUnschedulableThread ==
    InPass =>
        /\ local.errors \subseteq {"UnschedulableConflicts"}
        /\ local.unschedulable_ids # <<>>
              => local.errors = {"UnschedulableConflicts"}

\* C38 witness: with two threads, a pass deferred a transaction that
\* try_lock_accounts refused and one the blocking set stopped.
C38_Witness ==
    /\ InPass /\ config.num_threads = 2
    /\ local.errors = {"UnschedulableConflicts"}
    /\ local.lock_deferred # {}
    /\ SeqToSet(local.unschedulable_ids) \ local.lock_deferred # {}

\* A step of a pass returns Err(DisconnectedSendChannel).
SendFails == InPass /\ pc' = "idle" /\ result' = DisconnectedSendChannel

\* The batches the step registered in the in-flight tracker.
NewBatches == DOMAIN in_flight_tracker'.batches \ DOMAIN in_flight_tracker.batches

\* C39: a step of schedule that returns Err(DisconnectedSendChannel) leaves
\* the failed batch registered in the in-flight tracker (for a disconnected
\* thread, counted in its in-flight numbers, in no channel); releases no
\* account lock, so the locks of every transaction the pass assigned are
\* held on its thread; pushes no id back into the container queue, neither
\* those recorded unschedulable nor those in the priority graph; and leaves
\* every node in the priority graph.
C39_NoRollback ==
    [][SendFails
          => /\ \E b \in NewBatches :
                   /\ ~connected.consume[in_flight_tracker'.batches[b].thread_id]
                   /\ \A m \in OutstandingBatchIds' : m[3] # b
                   /\ in_flight_tracker'.num_in_flight_per_thread[
                          in_flight_tracker'.batches[b].thread_id]
                        >= in_flight_tracker'.batches[b].num_transactions
                   /\ in_flight_tracker'.batches[b].num_transactions > 0
             /\ \A t \in Threads : \A a \in Accounts :
                   /\ account_locks'.write[a][t] >= account_locks.write[a][t]
                   /\ account_locks'.read[a][t] >= account_locks.read[a][t]
                   /\ account_locks'.write[a][t]
                        >= Cardinality({k \in 1..Len(local.assigned) :
                                          /\ local.assigned[k][2] = t
                                          /\ a \in txs[local.assigned[k][1]].writes})
                   /\ account_locks'.read[a][t]
                        >= Cardinality({k \in 1..Len(local.assigned) :
                                          /\ local.assigned[k][2] = t
                                          /\ a \in txs[local.assigned[k][1]].reads})
             /\ container'.queue = container.queue
             /\ \A i \in SeqToSet(local.unschedulable_ids) \cup Unpopped :
                   container'.queue[i] = container.queue[i]
             /\ prio_graph'.nodes = prio_graph.nodes
             /\ prio_graph.nodes # {} => prio_graph' # clear(prio_graph)
      ]_vars

\* C39 witness: schedule returned Err(DisconnectedSendChannel); a batch is
\* tracked for the disconnected thread and its locks are held; the priority
\* graph still holds a transaction that was never popped from it, which is
\* Unprocessed and not in the container queue.
C39_Witness ==
    /\ pc = "idle" /\ result = DisconnectedSendChannel
    /\ \E b \in DOMAIN in_flight_tracker.batches :
          /\ ~connected.consume[in_flight_tracker.batches[b].thread_id]
          /\ \E a \in Accounts :
                account_locks.write[a][in_flight_tracker.batches[b].thread_id] > 0
    /\ \E i \in prio_graph.main :
          container.state[i] = "Unprocessed" /\ container.queue[i] = 0

\* Every transaction is dispatched and completed: the container is empty, no
\* account lock is held and the in-flight counters are zero.
AllCompleted ==
    /\ \A i \in Ids : container.state[i] = "Absent" /\ container.queue[i] = 0
    /\ DOMAIN in_flight_tracker.batches = {}
    /\ \A t \in Threads :
          /\ in_flight_tracker.num_in_flight_per_thread[t] = 0
          /\ in_flight_tracker.cus_in_flight_per_thread[t] = 0
          /\ \A a \in Accounts :
                account_locks.write[a][t] = 0 /\ account_locks.read[a][t] = 0

\* C40: with filters that pass everything, positive caps, connected channels,
\* workers that return every batch with no retryable index and a caller that
\* keeps calling schedule and receive_completed, eventually and from then on
\* the container is empty, no account lock is held and the in-flight counters
\* are zero.
C40_Progress == <>[]AllCompleted

\* C40 witness: with two threads, everything is completed after a pass that
\* deferred a transaction and three or more batches.
C40_Witness ==
    /\ pc = "idle" /\ AllCompleted
    /\ config.num_threads = 2
    /\ in_flight_tracker.next_batch_id >= 3
    /\ \E i \in Ids : txs[i] # NoTx

====
